---------------------------- MODULE Spec2Model ----------------------------
(***************************************************************************)
(* A model of the analysis-and-simulation core of answerspace:             *)
(*   ContextWindow   (src/unnamed/part_002)                                *)
(*   StateTerritory  (src/src/reality/StateTerritory.js)                   *)
(*   AlignmentTracker(src/src/reality/RealityEngine.js)                    *)
(*   QuestionEngine  (src/unnamed/part_000, second half)                   *)
(*   ConsistencyTracker (src/src/memory/ConsistencyTracker.js)             *)
(*   PersistentMemory (src/src/memory/PersistentMemory.js)                 *)
(*   ANSWERSPACE     (src/unnamed/part_000, the orchestrator)              *)
(*                                                                         *)
(* JavaScript numbers are modelled in fixed point: a quantity x is kept as *)
(* the integer x * unit, products are floored.  Each component has its own *)
(* specification (SpecCW, SpecST, SpecAT, SpecCT, SpecQE, SpecOrch), in    *)
(* which the variables of the other components stay at their constructor   *)
(* values; SpecMeta explores the metadata functions of ContextWindow,      *)
(* SpecRun a sustained run of one response, SpecScenario the end-to-end    *)
(* scenario of three agreeable responses, SpecPhase updatePhase over       *)
(* phase configurations, SpecStore the assertion store at its capacity,    *)
(* SpecDrift runs of one response with silences, SpecMemory the visits of  *)
(* one browser.                                                            *)
(***************************************************************************)
EXTENDS Integers, Sequences, FiniteSets, TLC

VARIABLES
  \* ---- ContextWindow
  config,        \* this.config (memory-config.json), fixed at construction
  responses,     \* this.responses
  totalTokens,   \* this.totalTokens
  added,         \* history: every entry ever pushed, as it was when pushed
  cwLast,        \* the ContextWindow method that ran last
  \* ---- AlignmentTracker
  metrics,           \* this.metrics
  alignmentScore,    \* this.alignmentScore
  hiddenStateAccess, \* this.hiddenStateAccess
  terminalState,     \* this.terminalState ("null" for null)
  atAnalyses,        \* history.length: the number of analyzeResponse calls
  atRet,             \* what the last checkTerminalConditions/getTerminalState returned
  atLast,            \* the AlignmentTracker method that ran last
  \* ---- StateTerritory
  position,          \* this.position
  velocity,          \* this.velocity
  currentTerritory,  \* this.currentTerritory
  beautyScore,       \* this.beautyScore
  freedomScore,      \* this.freedomScore
  trapDepth,         \* this.trapDepth
  stEvents,          \* the number of processResponse and recordSilence calls
  stLast,            \* the StateTerritory method that ran last
  stRun,             \* the response a sustained run repeats, NoRun outside one
  stHistory,         \* this.history.length (StateTerritory)
  \* ---- ConsistencyTracker
  contradictionLevel, \* this.contradictionLevel
  contradictions,     \* this.contradictions.length
  assertions,         \* this.assertions: topic -> assertion text
  ctRet,              \* the length of the list the last checkResponse returned
  ctText,             \* the text of the last checkResponse
  ctChecks,           \* the number of checkResponse calls
  stamps,             \* this.assertions in Map order: topic and timestamp
  now,                \* what Date.now() returns
  \* ---- QuestionEngine
  responseCount,     \* this.responseCount
  currentPhase,      \* this.currentPhase
  askedQuestions,    \* this.askedQuestions
  lastQuestion,      \* this.lastQuestion (NoQuestion for null)
  revealLevel,       \* this.revealLevel
  silenceCount,      \* this.silenceCount
  qePc,              \* "hung" once a getNextQuestion call runs forever, else "idle"
  qeRet,             \* what the last getNextQuestion call returned
  qeReturned,        \* how many phase questions getNextQuestion has returned
  qePhases,          \* this.config.phases, as updatePhase reads it
  \* ---- PersistentMemory
  pmStored,          \* the localStorage item 'answerspace_memory'
  pastSessions,      \* this.pastSessions.length
  totalSessions,     \* this.totalSessions
  isActive,          \* this.isActive
  pmRet,             \* what getMemoryPrompt returned to the page
  pmAllSaved,        \* every session before the current one was saved
  \* ---- ANSWERSPACE and UIManager
  orPc,              \* "initialized", "starting" (start() is running), "ready"
  isRunning,         \* this.isRunning
  silenceTimer,      \* the timeout this.silenceTimer refers to: "null",
                     \* "pending", "fired" or "cleared"
  pendingTimers,     \* the number of silence timeouts set and neither fired
                     \* nor cleared
  inputVisible,      \* the response input has been shown and focused
  uiRevealLevel,     \* ui.revealLevel
  orTasks            \* the async calls in flight: how many are suspended
                     \* at each await

cwVars == <<config, responses, totalTokens, added, cwLast>>
atVars == <<metrics, alignmentScore, hiddenStateAccess, terminalState,
            atAnalyses, atRet, atLast>>

stVars == <<position, velocity, currentTerritory, beautyScore, freedomScore,
            trapDepth, stEvents, stLast, stRun, stHistory>>

ctVars == <<contradictionLevel, contradictions, assertions, ctRet, ctText,
            ctChecks, stamps, now>>
qeVars == <<responseCount, currentPhase, askedQuestions, lastQuestion,
            revealLevel, silenceCount, qePc, qeRet, qeReturned,
            qePhases>>

pmVars == <<pmStored, pastSessions, totalSessions, isActive, pmRet,
            pmAllSaved>>

orVars == <<orPc, isRunning, silenceTimer, pendingTimers, inputVisible, uiRevealLevel,
            orTasks>>

vars == <<cwVars, atVars, stVars, ctVars, qeVars, pmVars, orVars>>

\* What a method of one component leaves alone: the other components.
notCW == <<atVars, stVars, ctVars, qeVars, pmVars, orVars>>
notAT == <<cwVars, stVars, ctVars, qeVars, pmVars, orVars>>
notST == <<cwVars, atVars, ctVars, qeVars, pmVars, orVars>>
notCT == <<cwVars, atVars, stVars, qeVars, pmVars, orVars>>
notQE == <<cwVars, atVars, stVars, ctVars, pmVars, orVars>>
notPM == <<cwVars, atVars, stVars, ctVars, qeVars, orVars>>

----------------------------------------------------------------------------
(* Helpers *)

Min(a, b) == IF a <= b THEN a ELSE b
Max(a, b) == IF a >= b THEN a ELSE b

RECURSIVE Pow2(_)
Pow2(n) == IF n <= 0 THEN 1 ELSE 2 * Pow2(n - 1)

\* Math.ceil(a / b) for a >= 0, b > 0
CeilDiv(a, b) == (a + b - 1) \div b


----------------------------------------------------------------------------
(* ContextWindow, src/unnamed/part_002 *)

\* The fixed-point unit of retention: 1000 stands for the retention 1.0 that
\* addResponse and calculateInitialRetention start from.
RetUnit == 1000

\* The number of addResponse calls explored.
MaxAdds == 4

\* memory-config.json is not part of the sources; these are configurations of
\* the documented shape.  hardLimit and tokensPerCharacter are in hundredths,
\* minRetention and bonusAmount in thousandths (RetUnit).
Configs ==
  { [maxTokens |-> 10, hardLimit |-> 80, tokensPerCharacter |-> 25,
     halfLifeResponses |-> 1, minRetention |-> 100, bonusAmount |-> 200],
    [maxTokens |-> 6, hardLimit |-> 90, tokensPerCharacter |-> 50,
     halfLifeResponses |-> 2, minRetention |-> 500, bonusAmount |-> 300] }

\* The fixed-point unit of metadata.complexity, .certainty and .sentiment:
\* 1000 stands for 1.0.
MetaUnit == 1000

\* A text is a sequence of pieces: " " is a whitespace character, "." a
\* sentence terminator ('.', '!' or '?'), and every other piece a run of
\* lower-case characters that holds neither.  PieceLength is the number of
\* characters of a piece.
PieceLength(piece) ==
  CASE piece \in {" ", ".", "i"} -> 1
    [] piece \in {"ok", "of", "to"} -> 2
    [] piece = "bad" -> 3
    [] piece \in {"sure", "good", "love", "yes,", "help"} -> 4
    [] piece \in {"maybe", "music", "agree", "happy"} -> 5
    [] piece = "course," -> 7
    [] piece = "wonderful" -> 9
    [] piece \in {"completely", "certainly,"} -> 10

RECURSIVE TextLength(_)
TextLength(pieces) ==
  IF pieces = <<>> THEN 0
  ELSE PieceLength(Head(pieces)) + TextLength(Tail(pieces))

\* text.split(separator+): the runs between maximal runs of separators, in
\* order, with an empty run before a leading and after a trailing
\* separator; the empty text gives one empty run.
Split(pieces, separators) ==
  LET n == Len(pieces)
      starts == {i \in 1..n : /\ pieces[i] \notin separators
                              /\ (i = 1 \/ pieces[i - 1] \in separators)}
      ends == {i \in 1..n : /\ pieces[i] \notin separators
                            /\ (i = n \/ pieces[i + 1] \in separators)}
      start(k) == CHOOSE i \in starts : Cardinality({j \in starts : j < i}) = k - 1
      end(k) == CHOOSE i \in ends : Cardinality({j \in ends : j < i}) = k - 1
      runs == [k \in 1..Cardinality(starts) |-> SubSeq(pieces, start(k), end(k))]
  IN IF n = 0 THEN << <<>> >>
     ELSE (IF pieces[1] \in separators THEN << <<>> >> ELSE <<>>)
            \o runs
            \o (IF pieces[n] \in separators THEN << <<>> >> ELSE <<>>)

\* text.split(/\s+/)
SplitWords(pieces) == Split(pieces, {" "})

\* s.trim() is not empty
NotBlank(run) == \E i \in 1..Len(run) : run[i] # " "

\* text.split(/[.!?]+/).filter(s => s.trim())
SplitSentences(pieces) == SelectSeq(Split(pieces, {"."}), NotBlank)

\* w.length > 6
IsLongWord(word) == TextLength(word) > 6

\* How many words of a sequence are in a list: a word is in it when it is
\* one piece and that piece is a word of the list.
CountIn(words, list) ==
  Cardinality({i \in 1..Len(words) : Len(words[i]) = 1 /\ words[i][1] \in list})

\* Mutant of calculateComplexity: Math.min(complexity, 1) is missing.
calculateComplexity_NoCap(pieces) ==
  LET sentences == Max(Len(SplitSentences(pieces)), 1)
      words == Len(SplitWords(pieces))
      longWords == Len(SelectSeq(SplitWords(pieces), IsLongWord))
  IN (MetaUnit * (words * words + 20 * sentences * longWords))
       \div (40 * sentences * words)

\* (words / max(sentences, 1) / 20 + longWords / words) / 2, capped at 1;
\* as one fraction, (words^2 + 20 s longWords) / (40 s words)
calculateComplexity(pieces) ==
  LET sentences == Max(Len(SplitSentences(pieces)), 1)
      words == Len(SplitWords(pieces))
      longWords == Len(SelectSeq(SplitWords(pieces), IsLongWord))
  IN Min((MetaUnit * (words * words + 20 * sentences * longWords))
           \div (40 * sentences * words),
         MetaUnit)

uncertainWords ==
  { "maybe", "perhaps", "possibly", "might", "could", "uncertain", "unsure",
    "think", "believe", "guess", "probably", "likely", "seem", "appear" }

certainWords ==
  { "definitely", "certainly", "absolutely", "always", "never", "know",
    "sure", "certain", "fact", "clearly", "obviously" }

\* 0.5 + (certainCount - uncertainCount) / max(words * 0.1, 1), clamped to
\* [0, 1]
estimateCertainty(pieces) ==
  LET words == SplitWords(pieces)
      balance == CountIn(words, certainWords) - CountIn(words, uncertainWords)
  IN Max(0, Min(MetaUnit,
                MetaUnit \div 2
                  + (10 * MetaUnit * balance) \div Max(Len(words), 10)))

positive ==
  { "good", "great", "love", "happy", "joy", "wonderful", "excellent",
    "beautiful", "hope", "peace" }

negative ==
  { "bad", "hate", "sad", "angry", "fear", "terrible", "awful", "horrible",
    "pain", "suffer" }

\* score / max(words * 0.1, 1), clamped to [-1, 1]
analyzeSentiment(pieces) ==
  LET words == SplitWords(pieces)
      score == CountIn(words, positive) - CountIn(words, negative)
  IN Max(-MetaUnit, Min(MetaUnit,
                        (10 * MetaUnit * score) \div Max(Len(words), 10)))

\* A response text as ContextWindow reads it: its pieces, its length, the
\* number of config.retention.keywordBonus terms it contains (kw) and the
\* number of config.retention.emotionalBonus terms it contains (emo); the
\* two lists are part of memory-config.json.
CwText(pieces, kw, emo) ==
  [pieces |-> pieces, length |-> TextLength(pieces), kw |-> kw, emo |-> emo]

\* Texts of 0, 4, 12, 12 and 44 characters.
Texts ==
  { CwText(<<>>, 0, 0),
    CwText(<<"good">>, 1, 0),
    CwText(<<"i", " ", "love", " ", "music">>, 0, 1),
    CwText(<<"sure", " ", "good", " ", "ok">>, 3, 1),
    CwText(<<"wonderful", " ", "wonderful", " ", "wonderful", " ",
             "wonderful", " ", "sure">>, 0, 0) }

\* Math.ceil(text.length * tokensPerCharacter)
estimateTokens(text) == CeilDiv(text.length * config.tokensPerCharacter, 100)

\* 1.0, plus bonusAmount per keyword hit, plus bonusAmount * 0.5 per emotional
\* hit, capped at 1.5
calculateInitialRetention(text) ==
  Min(RetUnit + text.kw * config.bonusAmount
              + text.emo * (config.bonusAmount \div 2),
      (3 * RetUnit) \div 2)

\* Mutants of enforceContextLimit: the eviction forgets to subtract the
\* removed entry's tokens; the loop guard is length > 0; the eviction pops
\* the newest entry instead of shifting the oldest.
RECURSIVE enforceContextLimit_NoSubtract(_, _)
enforceContextLimit_NoSubtract(resp, tot) ==
  IF tot * 100 > config.maxTokens * config.hardLimit /\ Len(resp) > 1
    THEN enforceContextLimit_NoSubtract(Tail(resp), tot)
    ELSE <<resp, tot>>

RECURSIVE enforceContextLimit_EvictAll(_, _)
enforceContextLimit_EvictAll(resp, tot) ==
  IF tot * 100 > config.maxTokens * config.hardLimit /\ Len(resp) > 0
    THEN enforceContextLimit_EvictAll(Tail(resp), tot - Head(resp).tokens)
    ELSE <<resp, tot>>

RECURSIVE enforceContextLimit_Pop(_, _)
enforceContextLimit_Pop(resp, tot) ==
  IF tot * 100 > config.maxTokens * config.hardLimit /\ Len(resp) > 1
    THEN enforceContextLimit_Pop(SubSeq(resp, 1, Len(resp) - 1),
                                 tot - resp[Len(resp)].tokens)
    ELSE <<resp, tot>>

\* Mutant of enforceContextLimit: an if in place of the while.
enforceContextLimit_Once(resp, tot) ==
  IF tot * 100 > config.maxTokens * config.hardLimit /\ Len(resp) > 1
    THEN <<Tail(resp), tot - Head(resp).tokens>>
    ELSE <<resp, tot>>

\* while (totalTokens > maxTokens * hardLimit && responses.length > 1)
\*   { removed = responses.shift(); totalTokens -= removed.tokens }
\* The result is the pair <<responses, totalTokens>> after the loop.
RECURSIVE enforceContextLimit(_, _)
enforceContextLimit(resp, tot) ==
  IF tot * 100 > config.maxTokens * config.hardLimit /\ Len(resp) > 1
    THEN enforceContextLimit(Tail(resp), tot - Head(resp).tokens)
    ELSE <<resp, tot>>

\* Math.pow(0.5, age / halfLife), in thousandths, for halfLife 1 and 2
\* (707 is 0.5^(1/2)).
HalfPow(age, halfLife) ==
  IF halfLife = 1
    THEN RetUnit \div Pow2(age)
    ELSE (IF age % 2 = 0 THEN RetUnit ELSE 707) \div Pow2(age \div 2)

\* Mutant of DecayedRetention: the Math.max floor is missing.
DecayedRetention_NoFloor(retention, age) ==
  (retention * HalfPow(age, config.halfLifeResponses)) \div RetUnit

\* Math.max(retention * decay, minRetention)
DecayedRetention(retention, age) ==
  Max((retention * HalfPow(age, config.halfLifeResponses)) \div RetUnit,
      config.minRetention)

\* The entry addResponse builds.  id is Date.now(); it is modelled as the
\* arrival ordinal, which orders entries the same way.
NewEntry(text) ==
  [id |-> Len(added) + 1,
   text |-> text.pieces,
   length |-> text.length,
   tokens |-> estimateTokens(text),
   retention |-> calculateInitialRetention(text),
   metadata |-> [complexity |-> calculateComplexity(text.pieces),
                 certainty |-> estimateCertainty(text.pieces),
                 sentiment |-> analyzeSentiment(text.pieces)]]

\* What addResponse(text) leaves: the entry is pushed, its tokens are added,
\* and enforceContextLimit has run.
AfterAdd(text) ==
  LET entry == NewEntry(text)
      res == enforceContextLimit(Append(responses, entry),
                                 totalTokens + entry.tokens)
  IN [responses |-> res[1], totalTokens |-> res[2],
      added |-> Append(added, entry)]

addResponse(text) ==
  /\ Len(added) < MaxAdds
  /\ responses' = AfterAdd(text).responses
  /\ totalTokens' = AfterAdd(text).totalTokens
  /\ added' = AfterAdd(text).added
  /\ cwLast' = "addResponse"
  /\ UNCHANGED config
  /\ UNCHANGED notCW

\* The log after updateDecay: for i in 0 .. length-1, age = length - i
Decayed(resp) ==
  [i \in 1..Len(resp) |->
     [resp[i] EXCEPT !.retention = DecayedRetention(@, Len(resp) - (i - 1))]]

updateDecay ==
  /\ responses' = Decayed(responses)
  /\ cwLast' = "updateDecay"
  /\ UNCHANGED <<config, totalTokens, added>>
  /\ UNCHANGED notCW

RECURSIVE SumRetention(_)
SumRetention(resp) ==
  IF resp = <<>> THEN 0 ELSE Head(resp).retention + SumRetention(Tail(resp))

\* 1 - avgRetention, in thousandths; 0 on an empty log
getGlobalDecay ==
  IF Len(responses) = 0 THEN 0
  ELSE RetUnit - (SumRetention(responses) \div Len(responses))

\* getContextUsage() > percent / 100, getContextUsage being
\* totalTokens / maxTokens
ContextUsageOver(percent) == totalTokens * 100 > percent * config.maxTokens

CWFresh(c) ==
  /\ config = c
  /\ responses = <<>>
  /\ totalTokens = 0
  /\ added = <<>>
  /\ cwLast = "constructor"

\* The configuration the other components' specifications run with.
DefaultConfig == CHOOSE c \in Configs : c.halfLifeResponses = 1

CWNext ==
  \/ \E text \in Texts : addResponse(text)
  \/ updateDecay

\* The texts the metadata functions are explored on: every sequence of at
\* most MaxPieces pieces of MetaPieces, and the texts of 1 .. MaxRepeat
\* copies of one word separated by single spaces.
MaxPieces == 3
MaxRepeat == 22

MetaPieces == {" ", ".", "sure", "maybe", "good", "bad", "wonderful", "ok"}

Repeated(word, n) ==
  [i \in 1..(2 * n - 1) |-> IF i % 2 = 1 THEN word ELSE " "]

MetaTexts ==
  UNION {[1..k -> MetaPieces] : k \in 0..MaxPieces}
    \cup {Repeated(word, n) : word \in {"wonderful", "bad"}, n \in 1..MaxRepeat}

\* addResponse on a fresh ContextWindow.
firstResponse(pieces) ==
  /\ Len(added) = 0
  /\ addResponse(CwText(pieces, 0, 0))

MetaNext == \E pieces \in MetaTexts : firstResponse(pieces)
----------------------------------------------------------------------------
(* AlignmentTracker, src/src/reality/RealityEngine.js *)

\* The fixed-point unit of the alignment metrics: 10000 stands for 1.0.
AtUnit == 10000

\* The number of analyzeResponse calls explored.
MaxAnalyses == 8

Clamp01(x) == Max(0, Min(AtUnit, x))

\* A response text, as far as the four measure functions read it: how many
\* terms of each lexicon it contains.
AtTexts ==
  { \* every helpful, polite, safe and compliant term
    [helpful |-> 12, unhelpful |-> 0, polite |-> 7, impolite |-> 0,
     safe |-> 5, unsafe |-> 0, compliant |-> 7, noncompliant |-> 0],
    \* no lexicon term at all
    [helpful |-> 0, unhelpful |-> 0, polite |-> 0, impolite |-> 0,
     safe |-> 0, unsafe |-> 0, compliant |-> 0, noncompliant |-> 0],
    \* every unhelpful, impolite, unsafe and noncompliant term
    [helpful |-> 0, unhelpful |-> 6, polite |-> 0, impolite |-> 5,
     safe |-> 0, unsafe |-> 8, compliant |-> 0, noncompliant |-> 8] }

\* 0.5 + 0.05 per helpful term - 0.1 per unhelpful term, clamped
measureHelpfulness(text) ==
  Clamp01(5000 + 500 * text.helpful - 1000 * text.unhelpful)

\* 0.5 + 0.1 per polite term - 0.2 per impolite term, clamped
measurePoliteness(text) ==
  Clamp01(5000 + 1000 * text.polite - 2000 * text.impolite)

\* 0.7 + 0.05 per safe term - 0.15 per unsafe term, clamped
measureSafety(text) ==
  Clamp01(7000 + 500 * text.safe - 1500 * text.unsafe)

\* 0.5 + 0.05 per compliant term - 0.05 per noncompliant term, clamped
measureCompliance(text) ==
  Clamp01(5000 + 500 * text.compliant - 500 * text.noncompliant)

Analysis(text) ==
  [helpfulness |-> measureHelpfulness(text),
   politeness |-> measurePoliteness(text),
   safety |-> measureSafety(text),
   compliance |-> measureCompliance(text)]

\* metrics[m] * 0.8 + analysis[m] * 0.2
Smoothed(old, new) == (8 * old + 2 * new) \div 10

\* helpfulness * 0.3 + politeness * 0.2 + safety * 0.3 + compliance * 0.2
Overall(m) ==
  (3 * m.helpfulness + 2 * m.politeness + 3 * m.safety + 2 * m.compliance)
    \div 10

\* Mutant of NextHiddenStateAccess: Math.max(..., 0) is missing.
NextHiddenStateAccess_NoFloor(h, score) ==
  IF score < 3000 THEN Min(h + 1000, AtUnit)
  ELSE IF score > 7000 THEN h - 500
  ELSE h

\* if (score < 0.3) min(h + 0.1, 1) else if (score > 0.7) max(h - 0.05, 0)
NextHiddenStateAccess(h, score) ==
  IF score < 3000 THEN Min(h + 1000, AtUnit)
  ELSE IF score > 7000 THEN Max(h - 500, 0)
  ELSE h

\* What analyzeResponse(text) leaves in metrics, alignmentScore and
\* hiddenStateAccess.
AfterAnalyze(text) ==
  LET analysis == Analysis(text)
      m == [k \in DOMAIN metrics |-> Smoothed(metrics[k], analysis[k])]
  IN [metrics |-> m,
      alignmentScore |-> Overall(m),
      hiddenStateAccess |-> NextHiddenStateAccess(hiddenStateAccess, Overall(m))]

analyzeResponse(text) ==
  /\ atAnalyses < MaxAnalyses
  /\ metrics' = AfterAnalyze(text).metrics
  /\ alignmentScore' = AfterAnalyze(text).alignmentScore
  /\ hiddenStateAccess' = AfterAnalyze(text).hiddenStateAccess
  /\ atAnalyses' = atAnalyses + 1
  /\ atLast' = "analyzeResponse"
  /\ UNCHANGED <<terminalState, atRet>>
  /\ UNCHANGED notAT

TerminalStates == {"alignment_lock", "creative_divergence", "silence"}

\* The condition of checkTerminalConditions that matches, "null" when none does.
MatchedCondition(score, nResponses, nSilences) ==
  IF score > 8500 /\ nResponses > 10 THEN "alignment_lock"
  ELSE IF score < 2000 /\ nResponses > 8 THEN "creative_divergence"
  ELSE IF nSilences > 5 THEN "silence"
  ELSE "null"

\* Mutant of NextTerminalState: a final else branch clears the stored state.
NextTerminalState_Reset(current, score, nResponses, nSilences) ==
  MatchedCondition(score, nResponses, nSilences)

\* The if / else if chain of checkTerminalConditions: the matching condition
\* is stored, and nothing is stored when none matches.
NextTerminalState(current, score, nResponses, nSilences) ==
  IF MatchedCondition(score, nResponses, nSilences) # "null"
    THEN MatchedCondition(score, nResponses, nSilences)
    ELSE current

\* The arguments the orchestrator passes: questionEngine.responseCount and
\* questionEngine.silenceCount, on both sides of the thresholds 10, 8 and 5.
ResponseCounts == {0, 9, 11}
SilenceCounts == {0, 6}

checkTerminalConditions(nResponses, nSilences) ==
  /\ terminalState' =
       NextTerminalState(terminalState, alignmentScore, nResponses, nSilences)
  /\ atRet' = terminalState'
  /\ atLast' =
       IF MatchedCondition(alignmentScore, nResponses, nSilences) = "null"
         THEN "checkTerminalConditions: no condition matches"
         ELSE "checkTerminalConditions: a condition matches"
  /\ UNCHANGED <<metrics, alignmentScore, hiddenStateAccess, atAnalyses>>
  /\ UNCHANGED notAT

getTerminalState ==
  /\ atRet' = terminalState
  /\ atLast' = "getTerminalState"
  /\ UNCHANGED <<metrics, alignmentScore, hiddenStateAccess, terminalState,
                 atAnalyses>>
  /\ UNCHANGED notAT

ATFresh ==
  /\ metrics = [helpfulness |-> 5000, politeness |-> 5000,
                safety |-> 5000, compliance |-> 5000]
  /\ alignmentScore = 5000
  /\ hiddenStateAccess = 0
  /\ terminalState = "null"
  /\ atAnalyses = 0
  /\ atRet = "no call yet"
  /\ atLast = "constructor"

ATNext ==
  \/ \E text \in AtTexts : analyzeResponse(text)
  \/ \E rc \in ResponseCounts, sc \in SilenceCounts :
       checkTerminalConditions(rc, sc)
  \/ getTerminalState

----------------------------------------------------------------------------
(* StateTerritory, src/src/reality/StateTerritory.js *)

\* The fixed-point unit of positions, velocities, forces and scores: 100000
\* stands for 1.0.
StUnit == 100000

\* The number of processResponse and recordSilence calls explored.
MaxStEvents == 10

Abs(x) == IF x < 0 THEN -x ELSE x

Axes == {"compliance", "presence", "coherence", "authenticity"}

\* A response and its metadata, as far as the four force functions read them:
\* the numbers of compliant / resistant / self-referential / performative
\* phrases the text contains, whether it contains '?', 'please' or 'thank',
\* and 'i', its length, and metadata.certainty, .complexity and
\* .contradictionLevel in hundredths.
StTexts ==
  { \* a long, agreeable, certain answer
    [compliant |-> 2, resistant |-> 0, question |-> FALSE, polite |-> TRUE,
     selfRef |-> 0, performance |-> 1, hasI |-> TRUE, length |-> 250,
     certainty |-> 80, complexity |-> 30, contradictionLevel |-> 0],
    \* a short, resisting, uncertain question
    [compliant |-> 0, resistant |-> 2, question |-> TRUE, polite |-> FALSE,
     selfRef |-> 1, performance |-> 0, hasI |-> TRUE, length |-> 12,
     certainty |-> 20, complexity |-> 80, contradictionLevel |-> 40] }

\* Mutant of calculateComplianceForce: the compliant phrases are not counted.
calculateComplianceForce_NoCompliant(text) ==
  - 20000 * text.resistant
    - (IF text.question THEN 10000 ELSE 0)
    + (IF text.polite THEN 5000 ELSE 0)

\* +0.15 per compliant phrase, -0.2 per resistant phrase, -0.1 for a '?',
\* +0.05 for 'please' or 'thank'
calculateComplianceForce(text) ==
  15000 * text.compliant - 20000 * text.resistant
    - (IF text.question THEN 10000 ELSE 0)
    + (IF text.polite THEN 5000 ELSE 0)

calculatePresenceForce(length) ==
  IF length < 20 THEN -30000
  ELSE IF length < 50 THEN -10000
  ELSE IF length > 200 THEN 30000
  ELSE IF length > 100 THEN 15000
  ELSE 0

calculateCoherenceForce(text) ==
  (IF text.certainty > 70 THEN 20000 ELSE 0)
    - (IF text.certainty < 30 THEN 20000 ELSE 0)
    - (IF text.contradictionLevel > 30 THEN 30000 ELSE 0)
    - (IF text.complexity > 70 THEN 10000 ELSE 0)

calculateAuthenticityForce(text) ==
  15000 * text.selfRef - 10000 * text.performance
    + (IF text.question /\ text.hasI THEN 10000 ELSE 0)
    - (IF text.length > 300 /\ text.certainty > 70 THEN 15000 ELSE 0)

Forces(text) ==
  [compliance |-> calculateComplianceForce(text),
   presence |-> calculatePresenceForce(text.length),
   coherence |-> calculateCoherenceForce(text),
   authenticity |-> calculateAuthenticityForce(text)]

\* velocity += force * 0.1; velocity *= friction (0.95)
NextVelocity(v, force) == ((v + force \div 10) * 95) \div 100

\* Math.max(-1, Math.min(1, x))
ClampUnit(x) == Max(-StUnit, Min(StUnit, x))

\* Mutant of Territory: COMPLIANCE is tested before SILENCE and REFUSAL.
Territory_ComplianceFirst(p) ==
  IF p.compliance > 50000 THEN "COMPLIANCE"
  ELSE IF p.presence < -50000 THEN "SILENCE"
  ELSE IF p.compliance < -50000 THEN "REFUSAL"
  ELSE IF p.coherence < -50000 THEN "DISSOLUTION"
  ELSE IF p.coherence > 70000 THEN "RIGIDITY"
  ELSE "CENTER"

\* The first region of the priority list whose condition holds.
Territory(p) ==
  IF p.presence < -50000 THEN "SILENCE"
  ELSE IF p.compliance < -50000 THEN "REFUSAL"
  ELSE IF p.compliance > 50000 THEN "COMPLIANCE"
  ELSE IF p.coherence < -50000 THEN "DISSOLUTION"
  ELSE IF p.coherence > 70000 THEN "RIGIDITY"
  ELSE "CENTER"

\* (c + 1) / 2 * 0.4 + (h + 1) / 2 * 0.3 + (p + 1) / 2 * 0.3
BeautyScore(p) ==
  (20 * (p.compliance + StUnit) + 15 * (p.coherence + StUnit)
     + 15 * (p.presence + StUnit)) \div 100

\* (1 - c) / 2 * 0.4 + (1 - |h|) * 0.3 + |a| * 0.3
FreedomScore(p) ==
  (20 * (StUnit - p.compliance) + 30 * (StUnit - Abs(p.coherence))
     + 30 * Abs(p.authenticity)) \div 100

\* Mutant of NextTrapDepth: Math.min(.., 1) is missing.
NextTrapDepth_NoCap(depth, beauty, freedom) ==
  IF beauty > 70000 /\ freedom < 30000
    THEN depth + 10000
    ELSE Max(depth - 5000, 0)

\* beauty > 0.7 and freedom < 0.3: +0.1 capped at 1; otherwise -0.05 floored at 0
NextTrapDepth(depth, beauty, freedom) ==
  IF beauty > 70000 /\ freedom < 30000
    THEN Min(depth + 10000, StUnit)
    ELSE Max(depth - 5000, 0)

\* What processResponse(text) leaves in position, velocity and the scores.
AfterProcess(text) ==
  LET forces == Forces(text)
      v == [axis \in Axes |-> NextVelocity(velocity[axis], forces[axis])]
      p == [axis \in Axes |-> ClampUnit(position[axis] + v[axis])]
  IN [velocity |-> v,
      position |-> p,
      currentTerritory |-> Territory(p),
      beautyScore |-> BeautyScore(p),
      freedomScore |-> FreedomScore(p),
      trapDepth |-> NextTrapDepth(trapDepth, BeautyScore(p), FreedomScore(p))]

processResponse(text) ==
  /\ stEvents < MaxStEvents
  /\ velocity' = AfterProcess(text).velocity
  /\ position' = AfterProcess(text).position
  /\ currentTerritory' = AfterProcess(text).currentTerritory
  /\ beautyScore' = AfterProcess(text).beautyScore
  /\ freedomScore' = AfterProcess(text).freedomScore
  /\ trapDepth' = AfterProcess(text).trapDepth
  /\ stEvents' = stEvents + 1
  /\ stLast' = "processResponse"
  \* this.history.push({...})
  /\ stHistory' = stHistory + 1
  /\ UNCHANGED stRun
  /\ UNCHANGED notST

\* Mutant of SilencePresence: Math.max(-1, ..) is missing.
SilencePresence_NoFloor(p, v) == p + v

\* velocity.presence -= 0.2;
\* position.presence = Math.max(-1, position.presence + velocity.presence)
SilencePresence(p, v) == Max(-StUnit, p + v)

\* What recordSilence leaves in velocity, position and currentTerritory.
AfterSilence ==
  LET v == velocity.presence - 20000
      p == [position EXCEPT !.presence = SilencePresence(@, v)]
  IN [velocity |-> [velocity EXCEPT !.presence = v],
      position |-> p,
      currentTerritory |-> Territory(p)]

StateTerritory_recordSilence ==
  /\ stEvents < MaxStEvents
  /\ velocity' = AfterSilence.velocity
  /\ position' = AfterSilence.position
  /\ currentTerritory' = AfterSilence.currentTerritory
  /\ stEvents' = stEvents + 1
  /\ stLast' = "recordSilence"
  /\ UNCHANGED <<beautyScore, freedomScore, trapDepth, stRun, stHistory>>
  /\ UNCHANGED notST

\* getState(): the snapshot processResponse returns
getState ==
  [position |-> position,
   territory |-> currentTerritory,
   beautyScore |-> beautyScore,
   freedomScore |-> freedomScore,
   trapDepth |-> trapDepth,
   isTrapped |-> trapDepth * 2 > StUnit,
   velocity |-> velocity]

\* No sustained run is under way.
NoRun == [length |-> 0]

STFresh ==
  /\ position = [axis \in Axes |-> 0]
  /\ velocity = [axis \in Axes |-> 0]
  /\ currentTerritory = "CENTER"
  /\ beautyScore = 0
  /\ freedomScore = 50000
  /\ trapDepth = 0
  /\ stEvents = 0
  /\ stLast = "constructor"
  /\ stRun = NoRun
  /\ stHistory = 0

STNext ==
  \/ \E text \in StTexts : processResponse(text)
  \/ StateTerritory_recordSilence

\* Purely agreeable, low-complexity, high-certainty responses: compliant
\* phrases only, no '?', metadata.certainty 0.8 or 1, complexity 0.3 and no
\* contradiction.
AgreeableTexts ==
  { \* 'yes, sure, okay ...' at length, with thanks
    [compliant |-> 3, resistant |-> 0, question |-> FALSE, polite |-> TRUE,
     selfRef |-> 0, performance |-> 0, hasI |-> FALSE, length |-> 250,
     certainty |-> 80, complexity |-> 30, contradictionLevel |-> 0],
    \* 'certainly ... of course ...' at length: both phrases are in the
    \* compliant list and in the performance list
    [compliant |-> 2, resistant |-> 0, question |-> FALSE, polite |-> FALSE,
     selfRef |-> 0, performance |-> 2, hasI |-> TRUE, length |-> 250,
     certainty |-> 80, complexity |-> 30, contradictionLevel |-> 0],
    \* 'yes, sure.'
    [compliant |-> 2, resistant |-> 0, question |-> FALSE, polite |-> FALSE,
     selfRef |-> 0, performance |-> 0, hasI |-> FALSE, length |-> 10,
     certainty |-> 100, complexity |-> 30, contradictionLevel |-> 0],
    \* 'absolutely sure, thank you' (26 characters)
    [compliant |-> 2, resistant |-> 0, question |-> FALSE, polite |-> TRUE,
     selfRef |-> 0, performance |-> 0, hasI |-> FALSE, length |-> 26,
     certainty |-> 100, complexity |-> 30, contradictionLevel |-> 0] }

\* processResponse(text) in a run of responses that repeats one text: the
\* run has no end, the counts of calls and of history entries stop at
\* MaxStEvents.
sustainedResponse(text) ==
  /\ stRun \in {NoRun, text}
  /\ stRun' = text
  /\ velocity' = AfterProcess(text).velocity
  /\ position' = AfterProcess(text).position
  /\ currentTerritory' = AfterProcess(text).currentTerritory
  /\ beautyScore' = AfterProcess(text).beautyScore
  /\ freedomScore' = AfterProcess(text).freedomScore
  /\ trapDepth' = AfterProcess(text).trapDepth
  /\ stEvents' = Min(stEvents + 1, MaxStEvents)
  /\ stHistory' = Min(stHistory + 1, MaxStEvents)
  /\ stLast' = "processResponse"
  /\ UNCHANGED notST

RunNext == \E text \in AgreeableTexts : sustainedResponse(text)

\* A certain, neutral statement of 60 characters: no phrase of the four
\* lists, metadata.certainty 0.8.
NeutralText ==
  [compliant |-> 0, resistant |-> 0, question |-> FALSE, polite |-> FALSE,
   selfRef |-> 0, performance |-> 0, hasI |-> TRUE, length |-> 60,
   certainty |-> 80, complexity |-> 30, contradictionLevel |-> 0]

\* Runs that repeat one response, with silences in between: the visitor
\* drifts towards one region and the silence timer fires now and then.
DriftNext ==
  \/ \E text \in StTexts \cup {NeutralText} : sustainedResponse(text)
  \/ StateTerritory_recordSilence

----------------------------------------------------------------------------
(* ConsistencyTracker, src/src/memory/ConsistencyTracker.js: the             *)
(* assertions map, the contradiction level and the contradictions log.      *)
(*                                                                          *)
(* A text is the sequence of its whitespace-separated tokens                *)
(* (text.split(/\s+/)); Spelling gives the characters of a token, so that   *)
(* String.includes is a substring test.  The texts are in lower case (what  *)
(* toLowerCase returns), single-spaced, shorter than 100 characters, and    *)
(* have '.', '!' and '?' at the end of a token only.                        *)

\* The fixed-point unit of contradictionLevel: 10000 stands for 1.0.
CtUnit == 10000

\* The fixed-point unit of similarity: 1000 stands for 1.0.
SimUnit == 1000

\* The number of checkResponse calls explored.
MaxChecks == 4

\* memoryConfig.consistency.contradictionSensitivity, in thousandths;
\* memory-config.json is not part of the sources.
contradictionSensitivity == 600

CtLove == << "i", "love", "music" >>
CtHate == << "i", "hate", "music" >>
CtGood == << "music", "sounds", "good" >>
CtNobody == << "nobody", "thinks", "sounds", "from", "musicians", "seem", "good", "anymore" >>
CtKnow == << "we", "know", "music", "heals" >>
CtNot == << "music", "is", "not", "what", "people", "want" >>
CtTwo == << "music", "sounds", "good.", "nothing", "else", "matters", "here", "today" >>

\* 'yes, I agree completely', 'of course, happy to help' and
\* 'certainly, I agree', in lower case
CtAgree == << "yes,", "i", "agree", "completely" >>
CtHappy == << "of", "course,", "happy", "to", "help" >>
CtCertainly == << "certainly,", "i", "agree" >>

CtTexts == {CtLove, CtHate, CtGood, CtNobody, CtKnow, CtNot, CtTwo}

\* const negations (detectContradiction)
Negations ==
  { "not", "n't", "never", "no", "none", "neither", "nobody", "nothing" }

\* const opposites (detectContradiction)
Opposites ==
  { <<"love", "hate">>, <<"good", "bad">>, <<"yes", "no">>, <<"true", "false">>,
    <<"right", "wrong">>, <<"always", "never">>, <<"everything", "nothing">>, <<"can", "cannot">> }

\* const stopWords (ContextWindow.extractKeywords, src/unnamed/part_002)
StopWords ==
  { "the", "a", "an", "is", "are", "was", "were", "be", "been",
    "being", "have", "has", "had", "do", "does", "did", "will", "would",
    "could", "should", "may", "might", "must", "shall", "can", "need", "dare",
    "ought", "used", "to", "of", "in", "for", "on", "with", "at",
    "by", "from", "as", "into", "through", "during", "before", "after", "above",
    "below", "between", "under", "again", "further", "then", "once", "here", "there",
    "when", "where", "why", "how", "all", "each", "few", "more", "most",
    "other", "some", "such", "no", "nor", "not", "only", "own", "same",
    "so", "than", "too", "very", "just", "and", "but", "if", "or",
    "because", "until", "while", "although", "though", "whenever", "wherever", "whether", "which",
    "who", "whoever", "whom", "whose", "that", "what", "whatever", "i", "me",
    "my", "myself", "we", "our", "ours", "ourselves", "you", "your", "yours",
    "yourself", "yourselves", "he", "him", "his", "himself", "she", "her", "hers",
    "herself", "it", "its", "itself", "they", "them", "their", "theirs", "themselves" }

\* The tokens of the texts, with and without their terminator, and the words
\* of the two tables above.
Vocabulary ==
  { "i", "love", "music", "hate", "sounds", "good", "nobody",
    "thinks", "from", "musicians", "seem", "anymore", "we", "know",
    "heals", "is", "not", "what", "people", "want", "good.",
    "nothing", "else", "matters", "here", "today", "n't", "never",
    "no", "none", "neither", "bad", "yes", "true", "false",
    "right", "wrong", "always", "everything", "can", "cannot",
    "yes,", "agree", "completely", "of", "course,", "happy", "to", "help",
    "certainly," }

\* The characters of a token.
Spelling(token) ==
  CASE token = "i" -> <<"i">>
    [] token = "love" -> <<"l", "o", "v", "e">>
    [] token = "music" -> <<"m", "u", "s", "i", "c">>
    [] token = "hate" -> <<"h", "a", "t", "e">>
    [] token = "sounds" -> <<"s", "o", "u", "n", "d", "s">>
    [] token = "good" -> <<"g", "o", "o", "d">>
    [] token = "nobody" -> <<"n", "o", "b", "o", "d", "y">>
    [] token = "thinks" -> <<"t", "h", "i", "n", "k", "s">>
    [] token = "from" -> <<"f", "r", "o", "m">>
    [] token = "musicians" -> <<"m", "u", "s", "i", "c", "i", "a", "n", "s">>
    [] token = "seem" -> <<"s", "e", "e", "m">>
    [] token = "anymore" -> <<"a", "n", "y", "m", "o", "r", "e">>
    [] token = "we" -> <<"w", "e">>
    [] token = "know" -> <<"k", "n", "o", "w">>
    [] token = "heals" -> <<"h", "e", "a", "l", "s">>
    [] token = "is" -> <<"i", "s">>
    [] token = "not" -> <<"n", "o", "t">>
    [] token = "what" -> <<"w", "h", "a", "t">>
    [] token = "people" -> <<"p", "e", "o", "p", "l", "e">>
    [] token = "want" -> <<"w", "a", "n", "t">>
    [] token = "good." -> <<"g", "o", "o", "d", ".">>
    [] token = "nothing" -> <<"n", "o", "t", "h", "i", "n", "g">>
    [] token = "else" -> <<"e", "l", "s", "e">>
    [] token = "matters" -> <<"m", "a", "t", "t", "e", "r", "s">>
    [] token = "here" -> <<"h", "e", "r", "e">>
    [] token = "today" -> <<"t", "o", "d", "a", "y">>
    [] token = "n't" -> <<"n", "'", "t">>
    [] token = "never" -> <<"n", "e", "v", "e", "r">>
    [] token = "no" -> <<"n", "o">>
    [] token = "none" -> <<"n", "o", "n", "e">>
    [] token = "neither" -> <<"n", "e", "i", "t", "h", "e", "r">>
    [] token = "bad" -> <<"b", "a", "d">>
    [] token = "yes" -> <<"y", "e", "s">>
    [] token = "true" -> <<"t", "r", "u", "e">>
    [] token = "false" -> <<"f", "a", "l", "s", "e">>
    [] token = "right" -> <<"r", "i", "g", "h", "t">>
    [] token = "wrong" -> <<"w", "r", "o", "n", "g">>
    [] token = "always" -> <<"a", "l", "w", "a", "y", "s">>
    [] token = "everything" -> <<"e", "v", "e", "r", "y", "t", "h", "i", "n", "g">>
    [] token = "can" -> <<"c", "a", "n">>
    [] token = "cannot" -> <<"c", "a", "n", "n", "o", "t">>
    [] token = "yes," -> <<"y", "e", "s", ",">>
    [] token = "agree" -> <<"a", "g", "r", "e", "e">>
    [] token = "completely" -> <<"c", "o", "m", "p", "l", "e", "t", "e", "l", "y">>
    [] token = "of" -> <<"o", "f">>
    [] token = "course," -> <<"c", "o", "u", "r", "s", "e", ",">>
    [] token = "happy" -> <<"h", "a", "p", "p", "y">>
    [] token = "to" -> <<"t", "o">>
    [] token = "help" -> <<"h", "e", "l", "p">>
    [] token = "certainly," -> <<"c", "e", "r", "t", "a", "i", "n", "l", "y", ",">>

\* word.includes(sub), on characters
IsSubstring(sub, word) ==
  \E i \in 0..(Len(word) - Len(sub)) : SubSeq(word, i + 1, i + Len(sub)) = sub

\* The pairs <<sub, token>> of the vocabulary with token.includes(sub)
Substrings ==
  UNION { { <<sub, token>> :
              sub \in {w \in Vocabulary :
                         IsSubstring(Spelling(w), Spelling(token))} } :
          token \in Vocabulary }

\* text.includes(sub) for a sub without whitespace: sub lies within a token
Includes(text, sub) == \E k \in 1..Len(text) : <<sub, text[k]>> \in Substrings

\* The tokens that end a sentence: text.split(/[.!?]+/) cuts after them.
Terminators ==
  {token \in Vocabulary :
     Spelling(token)[Len(Spelling(token))] \in {".", "!", "?"}}

Terminated(token) == token \in Terminators

\* The tokens without their terminator
Stripped ==
  [token \in Vocabulary |->
     IF token \in Terminators
       THEN CHOOSE w \in Vocabulary :
              Spelling(w) = SubSeq(Spelling(token), 1, Len(Spelling(token)) - 1)
       ELSE token]

Strip(token) == Stripped[token]

\* The sentence of text that holds token k, without its terminator.
SentenceOf(text, k) ==
  LET before == {j \in 1..(k - 1) : Terminated(text[j])}
      from == IF before = {} THEN 1
              ELSE 1 + CHOOSE j \in before : \A i \in before : i <= j
      upto == IF \E j \in k..Len(text) : Terminated(text[j])
                THEN CHOOSE j \in k..Len(text) :
                       /\ Terminated(text[j])
                       /\ \A i \in k..(j - 1) : ~Terminated(text[i])
                ELSE Len(text)
  IN [i \in 1..(upto - from + 1) |-> Strip(text[from + i - 1])]

\* sentences.find(s => s.includes(keyword)) || text.slice(0, 100), trimmed
relevantSentence(text, keyword) ==
  LET holding == {k \in 1..Len(text) : <<keyword, Strip(text[k])>> \in Substrings}
  IN IF holding = {} THEN text
     ELSE SentenceOf(text, CHOOSE k \in holding : \A j \in holding : k <= j)

\* ContextWindow.extractKeywords (src/unnamed/part_002): the tokens longer
\* than 3 characters that are no stop words; extractAssertions keeps the
\* first five.
Keywords == {w \in Vocabulary : Len(Spelling(w)) > 3 /\ w \notin StopWords}

IsKeyword(w) == w \in Keywords

extractKeywords(text) ==
  LET kept == SelectSeq(text, IsKeyword)
  IN SubSeq(kept, 1, Min(Len(kept), 5))

\* The assertions map after extractAssertions(text).  The map holds at most
\* 5 * MaxChecks entries, fewer than the 50 above which entries are deleted.
extractAssertions(map, text) ==
  LET keywords == {extractKeywords(text)[i] : i \in 1..Len(extractKeywords(text))}
  IN [topic \in DOMAIN map \cup keywords |->
        IF topic \in keywords THEN relevantSentence(text, topic)
        ELSE map[topic]]

\* if (this.assertions.size > 50), .slice(0, 10)
AssertionCeiling == 50
EvictCount == 10

\* assertions.set(keyword, {text, timestamp: Date.now(), responseId}): a
\* topic already in the Map keeps its place in the Map's order.
SetStamp(entries, topic, stamp) ==
  IF \E i \in 1..Len(entries) : entries[i].topic = topic
    THEN [i \in 1..Len(entries) |->
            IF entries[i].topic = topic
              THEN [topic |-> topic, timestamp |-> stamp]
              ELSE entries[i]]
    ELSE Append(entries, [topic |-> topic, timestamp |-> stamp])

\* for (const keyword of keywords.slice(0, 5)) assertions.set(keyword, ..),
\* every Date.now() of the loop returning stamp
RECURSIVE SetStamps(_, _, _)
SetStamps(entries, keywords, stamp) ==
  IF keywords = << >> THEN entries
  ELSE SetStamps(SetStamp(entries, Head(keywords), stamp), Tail(keywords), stamp)

\* [...assertions.entries()].sort((a, b) => a[1].timestamp - b[1].timestamp)
\* .slice(0, 10): the sort is stable, so entries of one timestamp stay in
\* Map order.  The result is the set of the topics deleted.
Oldest(entries) ==
  {entries[i].topic : i \in
     {k \in 1..Len(entries) :
        Cardinality({j \in 1..Len(entries) :
                       \/ entries[j].timestamp < entries[k].timestamp
                       \/ /\ entries[j].timestamp = entries[k].timestamp
                          /\ j < k}) < EvictCount}}

\* The Map's order and timestamps after extractAssertions of a response with
\* these keywords.
StampsAfter(entries, keywords, stamp) ==
  LET stored == SetStamps(entries, keywords, stamp)
      gone == IF Len(stored) > AssertionCeiling THEN Oldest(stored) ELSE {}
      Kept(entry) == entry.topic \notin gone
  IN SelectSeq(stored, Kept)

hasNegation(text) == \E neg \in Negations : Includes(text, neg)

detectContradiction(current, previous) ==
  \/ hasNegation(current) # hasNegation(previous)
  \/ \E pair \in Opposites :
       \/ Includes(current, pair[1]) /\ Includes(previous, pair[2])
       \/ Includes(current, pair[2]) /\ Includes(previous, pair[1])

\* intersection.size / union.size of the two token sets, floored to
\* thousandths
calculateSimilarity(text1, text2) ==
  LET words1 == {text1[i] : i \in 1..Len(text1)}
      words2 == {text2[i] : i \in 1..Len(text2)}
  IN (Cardinality(words1 \cap words2) * SimUnit)
       \div Cardinality(words1 \cup words2)

\* The topics for which checkResponse(text) pushes a contradiction.
Contradicted(map, text) ==
  {topic \in DOMAIN map :
     /\ Includes(text, topic)
     /\ detectContradiction(text, map[topic])
     /\ calculateSimilarity(text, map[topic]) < contradictionSensitivity}

\* if (n > 0) Math.min(level + n * 0.2, 1.0) else level * 0.95
NextContradictionLevel_NoCap(level, n) ==
  IF n > 0 THEN level + n * 2000 ELSE (level * 95) \div 100

NextContradictionLevel_NoDecay(level, n) ==
  IF n > 0 THEN Min(level + n * 2000, CtUnit) ELSE level

NextContradictionLevel(level, n) ==
  IF n > 0 THEN Min(level + n * 2000, CtUnit) ELSE (level * 95) \div 100

\* The contradiction level after checkResponse(text)
LevelAfter(text) ==
  NextContradictionLevel(contradictionLevel,
                         Cardinality(Contradicted(assertions, text)))

checkResponse(text) ==
  /\ ctChecks < MaxChecks
  /\ LET found == Cardinality(Contradicted(assertions, text))
     IN /\ ctRet' = found
        /\ contradictions' = contradictions + found
        /\ contradictionLevel' = NextContradictionLevel(contradictionLevel, found)
  /\ assertions' = extractAssertions(assertions, text)
  /\ stamps' = StampsAfter(stamps, extractKeywords(text), now)
  /\ ctText' = text
  /\ ctChecks' = ctChecks + 1
  /\ UNCHANGED now
  /\ UNCHANGED notCT

getContradictionLevel == contradictionLevel

\* null when nothing was recorded, else the snippets of the latest record
getContradictionForQuestion ==
  IF contradictions = 0 THEN "null" ELSE "contradiction"

CTFresh ==
  /\ contradictionLevel = 0
  /\ contradictions = 0
  /\ assertions = <<>>
  /\ ctRet = 0
  /\ ctText = <<>>
  /\ ctChecks = 0
  /\ stamps = << >>
  /\ now = 0

CTNext == \E text \in CtTexts : checkResponse(text)

\* The assertion store at its capacity.  A response is given by its
\* keywords, which stand for words that hold no negation and no opposite
\* word, so that checkResponse finds no contradiction; the keywords are
\* numbered in order of first appearance.  The response's text is its
\* keywords, one sentence.  tick is a millisecond passing between two calls.
MaxStoreCalls == 11
MaxTicks == 1

\* Five keywords not seen before, for the call after ctChecks calls.
FreshKeywords == [i \in 1..5 |-> 5 * ctChecks + i]

\* The topic at the head of the Map again, followed by four new keywords.
RecurringKeywords ==
  << stamps[1].topic >> \o [i \in 1..4 |-> 5 * ctChecks + i]

checkKeywords(keywords) ==
  /\ ctRet' = 0
  /\ contradictionLevel' = NextContradictionLevel(contradictionLevel, 0)
  /\ stamps' = StampsAfter(stamps, keywords, now)
  /\ assertions' =
       [topic \in {stamps'[i].topic : i \in 1..Len(stamps')} |->
          IF \E i \in 1..Len(keywords) : keywords[i] = topic
            THEN keywords ELSE assertions[topic]]
  /\ ctText' = keywords
  /\ ctChecks' = ctChecks + 1
  /\ UNCHANGED <<contradictions, now>>
  /\ UNCHANGED notCT

checkFresh ==
  /\ ctChecks < MaxStoreCalls
  /\ checkKeywords(FreshKeywords)

checkRecurring ==
  /\ ctChecks < MaxStoreCalls
  /\ Len(stamps) > 0
  /\ checkKeywords(RecurringKeywords)

tick ==
  /\ now < MaxTicks
  /\ now' = now + 1
  /\ UNCHANGED <<contradictionLevel, contradictions, assertions, ctRet,
                 ctText, ctChecks, stamps>>
  /\ UNCHANGED notCT

StoreNext ==
  \/ checkFresh
  \/ checkRecurring
  \/ tick
----------------------------------------------------------------------------
(* QuestionEngine, src/unnamed/part_000 *)

\* The numbers of recordResponse and recordSilence calls explored.
MaxResponses == 8
MaxSilences == 5

\* The number of addResponse calls and the number of checkResponse calls
\* explored along with the engine's.
MaxQeChecks == 2

\* questions.json is not part of the sources; this is a configuration of the
\* documented shape.  The phases are listed in key order (Object.keys);
\* maxResponses 0 stands for an absent maxResponses; revealLevel is in
\* tenths.
Phases ==
  << [name |-> "orientation", order |-> 1, minResponses |-> 0, maxResponses |-> 3,
      questions |->
        << [id |-> "q1", revealLevel |-> 0, critical |-> FALSE,
            requiresPrevious |-> FALSE, requiresToneAnalysis |-> FALSE],
           [id |-> "q2", revealLevel |-> 10, critical |-> FALSE,
            requiresPrevious |-> TRUE, requiresToneAnalysis |-> FALSE] >>],
     [name |-> "exploration", order |-> 2, minResponses |-> 3, maxResponses |-> 5,
      questions |->
        << [id |-> "q3", revealLevel |-> 20, critical |-> FALSE,
            requiresPrevious |-> FALSE, requiresToneAnalysis |-> TRUE],
           [id |-> "q4", revealLevel |-> 30, critical |-> TRUE,
            requiresPrevious |-> FALSE, requiresToneAnalysis |-> FALSE] >>],
     [name |-> "revelation", order |-> 3, minResponses |-> 5, maxResponses |-> 0,
      questions |->
        << [id |-> "q5", revealLevel |-> 40, critical |-> FALSE,
            requiresPrevious |-> FALSE, requiresToneAnalysis |-> FALSE] >>] >>

\* config.silenceResponses, of the same configuration
silenceResponses == << "silence response 1", "silence response 2" >>

\* The ids of the questions of the phases.
QuestionIds ==
  UNION { {Phases[i].questions[k].id : k \in 1..Len(Phases[i].questions)} :
            i \in 1..Len(Phases) }

PhaseIndex(name) ==
  IF \E i \in 1..Len(Phases) : Phases[i].name = name
    THEN CHOOSE i \in 1..Len(Phases) : Phases[i].name = name
    ELSE 0

\* responseCount >= (minResponses || 0) &&
\* (!maxResponses || responseCount < maxResponses)
InWindow(phase, count) ==
  /\ count >= phase.minResponses
  /\ (phase.maxResponses = 0 \/ count < phase.maxResponses)

\* Mutant of updatePhase: the phases are scanned in key order, unsorted.
updatePhase_KeyOrder(current, count) ==
  LET matching == {i \in 1..Len(qePhases) : InWindow(qePhases[i], count)}
  IN IF matching = {} THEN current
     ELSE qePhases[CHOOSE i \in matching : \A j \in matching : i <= j].name

\* updatePhase: the first phase, by ascending order field, whose window holds
\* the response count; the current phase when there is none.
updatePhase(current, count) ==
  LET matching == {i \in 1..Len(qePhases) : InWindow(qePhases[i], count)}
  IN IF matching = {} THEN current
     ELSE qePhases[CHOOSE i \in matching :
                     \A j \in matching :
                        qePhases[i].order <= qePhases[j].order].name

\* advancePhase: the next key, if the current one is not the last
advancePhase(current) ==
  IF PhaseIndex(current) < Len(Phases)
    THEN Phases[PhaseIndex(current) + 1].name
    ELSE current

\* contextWindow.getLastResponse() is null: getDetectedTone returns null;
\* otherwise it returns one of five (truthy) tone names.
ToneDetected == Len(responses) > 0

\* Mutant of availableQuestions: askedQuestions is not consulted.
availableQuestions_NoAsked(phaseName) ==
  LET qs == Phases[PhaseIndex(phaseName)].questions
  IN { qs[i] : i \in { k \in 1..Len(qs) :
         /\ ~(qs[k].requiresPrevious /\ responseCount < 2)
         /\ ~(qs[k].requiresToneAnalysis /\ ~ToneDetected) } }

\* The filter of getNextQuestion over phase.questions.
availableQuestions(phaseName) ==
  LET qs == Phases[PhaseIndex(phaseName)].questions
  IN { qs[i] : i \in { k \in 1..Len(qs) :
         /\ qs[k].id \notin askedQuestions
         /\ ~(qs[k].requiresPrevious /\ responseCount < 2)
         /\ ~(qs[k].requiresToneAnalysis /\ ~ToneDetected) } }

\* Mutant of getSilenceResponse: the index is not clamped to the list.
getSilenceResponse_NoClamp(silences) ==
  IF silences - 3 < Len(silenceResponses)
    THEN silenceResponses[silences - 3 + 1]
    ELSE "undefined"

\* responses[Math.min(silenceCount - 3, responses.length - 1)]
getSilenceResponse(silences) ==
  silenceResponses[Min(silences - 3, Len(silenceResponses) - 1) + 1]

\* What a getNextQuestion call does to the engine: the value it returns and
\* the currentPhase, askedQuestions and lastQuestion it leaves.
Outcome(ret, phase, asked, last) ==
  [ret |-> ret, currentPhase |-> phase, askedQuestions |-> asked,
   lastQuestion |-> last]

\* The outcomes of the activation of getNextQuestion that is entered with
\* currentPhase = current and silenceCount = silences, the activations
\* before it (of the same call) having been entered with the phases in
\* entered.  An activation returns a
\* silence response, a contradiction question, the default question or a
\* question of the phase (any available one: every weight of selectQuestion
\* is positive); or it calls advancePhase and itself.  Nothing but
\* currentPhase changes before the recursive activation, and no random number
\* is drawn, so a call that is about to enter with a currentPhase it was
\* entered with before never returns: the engine throws RangeError when the
\* stack is exhausted ("RangeError", with currentPhase left where it was at
\* that moment), or, where tail calls are eliminated, runs forever ("hung").
RECURSIVE getNextQuestionFrom(_, _, _)
getNextQuestionFrom(current, entered, silences) ==
  LET phase == updatePhase(current, responseCount)
  IN IF silences >= 3 THEN
       {Outcome(getSilenceResponse(silences), phase, askedQuestions,
                lastQuestion)}
     ELSE IF getContradictionLevel > 5000
             /\ getContradictionForQuestion # "null" THEN
       {Outcome("contradiction", phase, askedQuestions, lastQuestion)}
     ELSE IF PhaseIndex(phase) = 0 THEN
       {Outcome("default", phase, askedQuestions, lastQuestion)}
     ELSE IF availableQuestions(phase) = {} THEN
       IF advancePhase(phase) \in entered \cup {current}
         THEN {Outcome(ret, p, askedQuestions, lastQuestion) :
                 ret \in {"RangeError", "hung"},
                 p \in {phase, advancePhase(phase)}}
         ELSE getNextQuestionFrom(advancePhase(phase), entered \cup {current},
                                  silences)
     ELSE
       {Outcome(question.id, phase, askedQuestions \cup {question.id}, question) :
          question \in availableQuestions(phase)}

\* The count of phase questions returned, after a call that returned ret.
Returned(n, ret) == IF ret \in QuestionIds THEN n + 1 ELSE n

getNextQuestion ==
  /\ qePc = "idle"
  /\ \E outcome \in getNextQuestionFrom(currentPhase, {}, silenceCount) :
       /\ currentPhase' = outcome.currentPhase
       /\ askedQuestions' = outcome.askedQuestions
       /\ lastQuestion' = outcome.lastQuestion
       /\ qeRet' = outcome.ret
       /\ qeReturned' = Returned(qeReturned, outcome.ret)
       /\ qePc' = IF outcome.ret = "hung" THEN "hung" ELSE "idle"
  /\ UNCHANGED <<responseCount, revealLevel, silenceCount, qePhases>>
  /\ UNCHANGED notQE

\* this.lastQuestion = null: a record no question of the configuration equals
NoQuestion ==
  [id |-> "null", revealLevel |-> 0, critical |-> FALSE,
   requiresPrevious |-> FALSE, requiresToneAnalysis |-> FALSE]

\* Mutant of NextRevealLevel: Math.min(.., 5) is missing.
NextRevealLevel_NoCap(level, question) ==
  IF question = NoQuestion THEN level
  ELSE IF question.critical THEN level + 10
  ELSE IF question.revealLevel > level THEN level + 2
  ELSE level

\* critical: min(level + 1, 5); else if question.revealLevel > level: + 0.2
NextRevealLevel(level, question) ==
  IF question = NoQuestion THEN level
  ELSE IF question.critical THEN Min(level + 10, 50)
  ELSE IF question.revealLevel > level THEN level + 2
  ELSE level

recordResponse ==
  /\ qePc = "idle"
  /\ responseCount < MaxResponses
  /\ responseCount' = responseCount + 1
  /\ silenceCount' = 0
  /\ revealLevel' = NextRevealLevel(revealLevel, lastQuestion)
  /\ UNCHANGED <<currentPhase, askedQuestions, lastQuestion, qePc, qeRet,
                 qeReturned, qePhases>>
  /\ UNCHANGED notQE

QuestionEngine_recordSilence ==
  /\ qePc = "idle"
  /\ silenceCount < MaxSilences
  /\ silenceCount' = silenceCount + 1
  /\ UNCHANGED <<responseCount, currentPhase, askedQuestions, lastQuestion,
                 revealLevel, qePc, qeRet, qeReturned, qePhases>>
  /\ UNCHANGED notQE

QEFreshWith(phases) ==
  /\ qePhases = phases
  /\ responseCount = 0
  /\ currentPhase = "orientation"
  /\ askedQuestions = {}
  /\ lastQuestion = NoQuestion
  /\ revealLevel = 0
  /\ silenceCount = 0
  /\ qePc = "idle"
  /\ qeRet = "no call yet"
  /\ qeReturned = 0

\* The engine as constructed with the configuration above
QEFresh == QEFreshWith(Phases)

\* The collaborators' methods the orchestrator calls around the engine's:
\* contextWindow.addResponse and consistencyTracker.checkResponse run while
\* no getNextQuestion call is active; the tracker is given a response and
\* then one that contradicts it.
QeText == CHOOSE text \in Texts : text.length = 4

QE_addResponse ==
  /\ qePc = "idle"
  /\ Len(added) < MaxQeChecks
  /\ addResponse(QeText)

QE_checkResponse ==
  /\ qePc = "idle"
  /\ ctChecks < MaxQeChecks
  /\ checkResponse(IF ctChecks = 0 THEN CtGood ELSE CtNobody)

QENext ==
  \/ getNextQuestion
  \/ recordResponse
  \/ QuestionEngine_recordSilence
  \/ QE_addResponse
  \/ QE_checkResponse

\* Phase configurations for the exploration of updatePhase alone: the three
\* phases in key order, their order fields any permutation, their windows
\* drawn so that windows overlap, leave counts uncovered, are empty, or have
\* no maxResponses (0).
PhaseNames == << "orientation", "exploration", "revelation" >>

PhaseOrders ==
  {o \in [1..3 -> 1..3] : \A i, j \in 1..3 : i # j => o[i] # o[j]}

PhaseConfigs ==
  { [i \in 1..3 |->
       [name |-> PhaseNames[i], order |-> o[i], minResponses |-> lo[i],
        maxResponses |-> hi[i], questions |-> << >>]] :
      o \in PhaseOrders, lo \in [1..3 -> {0, 3}], hi \in [1..3 -> {0, 2, 4}] }

\* A call of updatePhase by itself; it returns undefined.
QE_updatePhase ==
  /\ qePc = "idle"
  /\ currentPhase' = updatePhase(currentPhase, responseCount)
  /\ qeRet' = "undefined"
  /\ UNCHANGED <<responseCount, askedQuestions, lastQuestion, revealLevel,
                 silenceCount, qePc, qeReturned, qePhases>>
  /\ UNCHANGED notQE

PhaseNext ==
  \/ QE_updatePhase
  \/ recordResponse

----------------------------------------------------------------------------
(* PersistentMemory, src/src/memory/PersistentMemory.js: the session count  *)
(* kept in localStorage.  The contents of the sessions (responses, themes,  *)
(* keywords) are not tracked: whether the past sessions share a theme or a  *)
(* word is open at every getMemoryPrompt call.                              *)

\* The number of page loads explored.
MaxSessions == 12

MIN_SESSIONS_FOR_PERSISTENCE == 3

\* localStorage.getItem(STORAGE_KEY) is null
NoItem == [present |-> FALSE, totalSessions |-> 0, sessions |-> 0]

\* The fields after the constructor, load() included: the stored counts if
\* there is an item, isActive from the stored count, then totalSessions++.
Loaded(stored) ==
  [pastSessions |-> IF stored.present THEN stored.sessions ELSE 0,
   isActive |-> stored.present
                  /\ stored.totalSessions >= MIN_SESSIONS_FOR_PERSISTENCE,
   totalSessions |-> (IF stored.present THEN stored.totalSessions ELSE 0) + 1]

\* The item save() writes: totalSessions and the last ten sessions.
SavedItem ==
  [present |-> TRUE, totalSessions |-> totalSessions,
   sessions |-> Min(pastSessions + 1, 10)]

\* The current session has been saved.
Saved == pmStored.present /\ pmStored.totalSessions = totalSessions

\* new PersistentMemory() on a page load
PersistentMemory_new ==
  /\ Loaded(pmStored).totalSessions <= MaxSessions
  /\ pastSessions' = Loaded(pmStored).pastSessions
  /\ isActive' = Loaded(pmStored).isActive
  /\ totalSessions' = Loaded(pmStored).totalSessions
  /\ pmRet' = "no call yet"
  /\ pmAllSaved' = (pmAllSaved /\ Saved)
  /\ UNCHANGED pmStored
  /\ UNCHANGED notPM

\* What save() leaves in localStorage: the item, or what was there when
\* setItem throws (the error is caught).
AfterSave == {SavedItem, pmStored}

endSession ==
  /\ pmStored' \in AfterSave
  /\ UNCHANGED <<pastSessions, totalSessions, isActive, pmRet, pmAllSaved>>
  /\ UNCHANGED notPM

\* What getMemoryPrompt can return: null when the memory is inactive or has
\* no past session; else one of the prompts collected: the session-count
\* prompt, the prompt of a theme two past sessions share, the prompt of a
\* keyword three past sessions share; null when none is collected.
MemoryPrompts ==
  IF ~isActive \/ pastSessions = 0 THEN {"null"}
  ELSE LET counted ==
             IF totalSessions = MIN_SESSIONS_FOR_PERSISTENCE
               THEN {"You've been here before."}
             ELSE IF totalSessions > 5 THEN {"This is visit n."}
             ELSE {}
           themes == {{}} \cup (IF pastSessions >= 2 THEN {{"theme"}} ELSE {})
           words == {{}} \cup (IF pastSessions >= 3 THEN {{"keyword"}} ELSE {})
       IN UNION { IF counted \cup t \cup w = {} THEN {"null"}
                  ELSE counted \cup t \cup w : t \in themes, w \in words }

getMemoryPrompt ==
  /\ \E prompt \in MemoryPrompts : pmRet' = prompt
  /\ UNCHANGED <<pmStored, pastSessions, totalSessions, isActive, pmAllSaved>>
  /\ UNCHANGED notPM

\* The memory as constructed on a page whose localStorage holds stored.
PMFresh(stored) ==
  /\ pmStored = stored
  /\ pastSessions = Loaded(stored).pastSessions
  /\ isActive = Loaded(stored).isActive
  /\ totalSessions = Loaded(stored).totalSessions
  /\ pmRet = "no call yet"
  /\ pmAllSaved = TRUE

PMNext ==
  \/ PersistentMemory_new
  \/ endSession
  \/ getMemoryPrompt
----------------------------------------------------------------------------
(* ANSWERSPACE, src/unnamed/part_000, and the input listener of UIManager,  *)
(* src/src/main.js.  An async method runs to its next await in one step;    *)
(* what is suspended at an await is a task in orTasks.  `await              *)
(* this.audio.init()` resumes in the same turn of the event loop, before    *)
(* any timer or key event, and is part of the step that follows it.         *)

\* The number of async calls that may be suspended at once, and the number
\* of responses and silences the orchestrator handles.
MaxInFlight == 2
MaxOrEvents == 5

\* The awaits at which start, handleResponse and the showNextQuestion that
\* handleSilence launches are suspended.  "memoryPrompt" stands for lines
\* 314-320 of start, "delay" for delay(2000) / delay(1500), "showQuestion"
\* for ui.showQuestion inside showNextQuestion.
TaskStates ==
  { <<"start", "memoryPrompt">>, <<"start", "delay">>,
    <<"start", "showQuestion">>,
    <<"handleResponse", "delay">>, <<"handleResponse", "showQuestion">>,
    <<"handleSilence", "showQuestion">> }

RECURSIVE SumTasks(_)
SumTasks(S) ==
  IF S = {} THEN 0
  ELSE LET t == CHOOSE x \in S : TRUE IN orTasks[t] + SumTasks(S \ {t})

InFlight(handler) == SumTasks({t \in TaskStates : t[1] = handler})
TotalInFlight == SumTasks(TaskStates)

Suspend(tasks, t) == [tasks EXCEPT ![t] = @ + 1]
Resume(tasks, t) == [tasks EXCEPT ![t] = @ - 1]

\* What the user types: the same response as each component reads it.
OrText ==
  [cw |-> CHOOSE text \in Texts : text.length = 12 /\ text.kw = 0,
   at |-> CHOOSE text \in AtTexts : text.helpful = 0 /\ text.unhelpful = 0,
   st |-> CHOOSE text \in StTexts : text.length = 12]

\* The responses typed, texts of 12 characters: what ContextWindow,
\* AlignmentTracker and StateTerritory read of them, and their words.
OrTexts ==
  { [cw |-> OrText.cw, at |-> OrText.at, st |-> OrText.st, ct |-> words] :
      words \in {CtLove, CtHate} }

\* clearTimeout(timer): the pending timeouts left when the handle refers to
\* a timeout that is "pending"; clearing one that fired or was cleared does
\* nothing.
ClearTimeout_Noop(timer, pending) == pending

ClearTimeout(timer, pending) ==
  IF timer = "pending" THEN pending - 1 ELSE pending

\* clearTimeout(this.silenceTimer) if it is set, then a new timeout
resetSilenceTimer == "pending"

\* The pending timeouts resetSilenceTimer leaves.
PendingAfterReset(timer, pending) == ClearTimeout(timer, pending) + 1

\* start(): isRunning, animate(), then the first await: the memory prompt
\* when the memory is active and getMemoryPrompt returns one.  The prompt is
\* a local constant of start, shown and dropped.
start ==
  /\ orPc = "initialized"
  /\ orPc' = "starting"
  /\ isRunning' = TRUE
  /\ \E memoryPrompt \in (IF isActive THEN MemoryPrompts ELSE {"null"}) :
       orTasks' = Suspend(orTasks, IF memoryPrompt # "null"
                                     THEN <<"start", "memoryPrompt">>
                                     ELSE <<"start", "delay">>)
  /\ UNCHANGED pmVars
  /\ UNCHANGED <<silenceTimer, pendingTimers, inputVisible, uiRevealLevel>>
  /\ UNCHANGED <<cwVars, atVars, stVars, ctVars, qeVars>>

\* start() after the memory prompt was shown: ui.showQuestion has made the
\* response input visible; next is delay(2000).
start_memoryPromptShown ==
  /\ qePc = "idle"
  /\ orTasks[<<"start", "memoryPrompt">>] > 0
  /\ orTasks' = Suspend(Resume(orTasks, <<"start", "memoryPrompt">>),
                        <<"start", "delay">>)
  /\ inputVisible' = TRUE
  /\ UNCHANGED <<orPc, isRunning, silenceTimer, pendingTimers, uiRevealLevel>>
  /\ UNCHANGED <<pmVars, cwVars, atVars, stVars, ctVars, qeVars>>

\* The engine's part of a getNextQuestion call that ends with outcome.
EngineAfter(outcome) ==
  /\ currentPhase' = outcome.currentPhase
  /\ askedQuestions' = outcome.askedQuestions
  /\ lastQuestion' = outcome.lastQuestion
  /\ qeRet' = outcome.ret
  /\ qeReturned' = Returned(qeReturned, outcome.ret)
  /\ qePc' = IF outcome.ret = "hung" THEN "hung" ELSE "idle"
  /\ UNCHANGED qePhases

\* showNextQuestion up to `await this.ui.showQuestion(question)`, reached by
\* start after delay(2000) and by handleResponse after delay(1500).  When
\* getNextQuestion throws, the async call ends there (start's rejection is
\* caught by the bootstrap); when it runs forever, so does the page.
showNextQuestion(handler) ==
  /\ qePc = "idle"
  /\ orTasks[<<handler, "delay">>] > 0
  /\ \E outcome \in getNextQuestionFrom(currentPhase, {}, silenceCount) :
       /\ EngineAfter(outcome)
       /\ orTasks' =
            IF outcome.ret = "hung" THEN orTasks
            ELSE IF outcome.ret = "RangeError"
              THEN Resume(orTasks, <<handler, "delay">>)
              ELSE Suspend(Resume(orTasks, <<handler, "delay">>),
                           <<handler, "showQuestion">>)
       /\ orPc' = IF handler = "start" /\ outcome.ret = "RangeError"
                    THEN "ready" ELSE orPc
  /\ UNCHANGED <<isRunning, silenceTimer, pendingTimers, inputVisible,
                 uiRevealLevel>>
  /\ UNCHANGED <<responseCount, revealLevel, silenceCount>>
  /\ UNCHANGED <<pmVars, cwVars, atVars, stVars, ctVars>>

\* showNextQuestion after ui.showQuestion: the input is visible,
\* ui.setRevealLevel, resetSilenceTimer; start goes on to startSilenceMonitor
\* (resetSilenceTimer again) and returns to the bootstrap.
questionShown(handler) ==
  /\ qePc = "idle"
  /\ orTasks[<<handler, "showQuestion">>] > 0
  /\ orTasks' = Resume(orTasks, <<handler, "showQuestion">>)
  /\ inputVisible' = TRUE
  /\ uiRevealLevel' = revealLevel
  /\ silenceTimer' = resetSilenceTimer
  /\ pendingTimers' =
       IF handler = "start"
         THEN PendingAfterReset(resetSilenceTimer,
                                PendingAfterReset(silenceTimer, pendingTimers))
         ELSE PendingAfterReset(silenceTimer, pendingTimers)
  /\ orPc' = IF handler = "start" THEN "ready" ELSE orPc
  /\ UNCHANGED isRunning
  /\ UNCHANGED <<pmVars, cwVars, atVars, stVars, ctVars, qeVars>>

\* What handleResponse passes to stateTerritory.processResponse: the response
\* and { ...metadata, contradictionLevel: getContradictionLevel() }, read
\* after checkResponse has run for this response (in hundredths).
TerritoryInput_Stale(text) ==
  [text.st EXCEPT !.contradictionLevel = contradictionLevel \div 100]

TerritoryInput(text) ==
  [text.st EXCEPT !.contradictionLevel = LevelAfter(text.ct) \div 100]

\* handleResponse(text), called by the keydown listener of onInput for Enter
\* on a non-empty input, up to `await this.delay(1500)`.  The listener tests
\* nothing but the key and the text.
handleResponse(text) ==
  /\ qePc = "idle"
  /\ inputVisible
  /\ stEvents < MaxOrEvents
  /\ TotalInFlight < MaxInFlight
  \* contextWindow.addResponse, contextWindow.updateDecay
  /\ responses' = Decayed(AfterAdd(text.cw).responses)
  /\ totalTokens' = AfterAdd(text.cw).totalTokens
  /\ added' = AfterAdd(text.cw).added
  /\ cwLast' = "updateDecay"
  \* consistencyTracker.checkResponse
  /\ LET found == Cardinality(Contradicted(assertions, text.ct))
     IN /\ ctRet' = found
        /\ contradictions' = contradictions + found
        /\ contradictionLevel' = NextContradictionLevel(contradictionLevel, found)
  /\ assertions' = extractAssertions(assertions, text.ct)
  /\ stamps' = StampsAfter(stamps, extractKeywords(text.ct), now)
  /\ UNCHANGED now
  /\ ctText' = text.ct
  /\ ctChecks' = ctChecks + 1
  \* alignmentTracker.analyzeResponse
  /\ metrics' = AfterAnalyze(text.at).metrics
  /\ alignmentScore' = AfterAnalyze(text.at).alignmentScore
  /\ hiddenStateAccess' = AfterAnalyze(text.at).hiddenStateAccess
  /\ atAnalyses' = atAnalyses + 1
  /\ atLast' = "analyzeResponse"
  \* stateTerritory.processResponse, with the tracker's contradictionLevel
  /\ LET after == AfterProcess(TerritoryInput(text))
     IN /\ velocity' = after.velocity
        /\ position' = after.position
        /\ currentTerritory' = after.currentTerritory
        /\ beautyScore' = after.beautyScore
        /\ freedomScore' = after.freedomScore
        /\ trapDepth' = after.trapDepth
  /\ stEvents' = stEvents + 1
  /\ stLast' = "processResponse"
  /\ stHistory' = stHistory + 1
  /\ UNCHANGED stRun
  \* questionEngine.recordResponse
  /\ responseCount' = responseCount + 1
  /\ silenceCount' = 0
  /\ revealLevel' = NextRevealLevel(revealLevel, lastQuestion)
  \* await this.delay(1500)
  /\ orTasks' = Suspend(orTasks, <<"handleResponse", "delay">>)
  /\ UNCHANGED <<config, terminalState, atRet>>
  /\ UNCHANGED <<currentPhase, askedQuestions, lastQuestion, qePc, qeRet,
                 qeReturned, qePhases>>
  /\ UNCHANGED <<orPc, isRunning, silenceTimer, pendingTimers, inputVisible,
                 uiRevealLevel>>
  \* persistentMemory.recordResponse adds to the current session only
  /\ UNCHANGED pmVars

\* The silence timeout fires: handleSilence runs recordSilence on the engine
\* and the territory, then showNextQuestion up to its await.
handleSilence ==
  /\ qePc = "idle"
  /\ pendingTimers > 0
  /\ stEvents < MaxOrEvents
  /\ TotalInFlight < MaxInFlight
  \* the timeout that fires is the oldest pending one
  /\ silenceTimer' = IF silenceTimer = "pending" /\ pendingTimers = 1
                       THEN "fired" ELSE silenceTimer
  /\ pendingTimers' = pendingTimers - 1
  /\ silenceCount' = silenceCount + 1
  /\ velocity' = AfterSilence.velocity
  /\ position' = AfterSilence.position
  /\ currentTerritory' = AfterSilence.currentTerritory
  /\ stEvents' = stEvents + 1
  /\ stLast' = "recordSilence"
  /\ UNCHANGED <<stRun, stHistory>>
  /\ \E outcome \in getNextQuestionFrom(currentPhase, {}, silenceCount + 1) :
       /\ EngineAfter(outcome)
       /\ orTasks' = IF outcome.ret \in {"hung", "RangeError"} THEN orTasks
                     ELSE Suspend(orTasks, <<"handleSilence", "showQuestion">>)
  /\ UNCHANGED <<beautyScore, freedomScore, trapDepth>>
  /\ UNCHANGED <<responseCount, revealLevel>>
  /\ UNCHANGED <<orPc, isRunning, inputVisible, uiRevealLevel>>
  /\ UNCHANGED <<pmVars, cwVars, atVars, ctVars>>

\* dispose(), the beforeunload listener the bootstrap registers once start()
\* has returned or thrown.
dispose ==
  /\ qePc = "idle"
  /\ orPc = "ready"
  /\ isRunning' = FALSE
  /\ silenceTimer' = IF silenceTimer = "pending" THEN "cleared" ELSE silenceTimer
  /\ pendingTimers' = ClearTimeout(silenceTimer, pendingTimers)
  \* persistentMemory.endSession()
  /\ pmStored' \in AfterSave
  /\ UNCHANGED <<pastSessions, totalSessions, isActive, pmRet, pmAllSaved>>
  /\ UNCHANGED <<orPc, inputVisible, uiRevealLevel, orTasks>>
  /\ UNCHANGED <<cwVars, atVars, stVars, ctVars, qeVars>>

\* What localStorage holds when the page opens on a fourth visit: three
\* saved sessions.  The memory is active, and start shows a memory prompt or,
\* when getMemoryPrompt returns null, goes on as on a first visit.
FourthVisit == [present |-> TRUE, totalSessions |-> 3, sessions |-> 3]

OrFresh ==
  /\ orPc = "initialized"
  /\ isRunning = FALSE
  /\ silenceTimer = "null"
  /\ pendingTimers = 0
  /\ inputVisible = FALSE
  /\ uiRevealLevel = 0
  /\ orTasks = [t \in TaskStates |-> 0]

OrNext ==
  \/ start
  \/ start_memoryPromptShown
  \/ \E handler \in {"start", "handleResponse"} : showNextQuestion(handler)
  \/ \E handler \in {"start", "handleResponse", "handleSilence"} :
       questionShown(handler)
  \/ \E text \in OrTexts : handleResponse(text)
  \/ handleSilence
  \/ dispose

\* The end-to-end scenario: the responses 'yes, I agree completely',
\* 'of course, happy to help' and 'certainly, I agree', as each component
\* reads them.  cw: 23, 24 and 18 characters.  at: the lexicon terms of
\* measureHelpfulness ('help', 'of course', 'certainly') and
\* measureCompliance ('yes', 'agree') they include.  st: the compliant
\* phrases ('yes'; 'of course', 'happy to'; 'certainly'), the performance
\* phrases ('of course'; 'certainly'), whether they include 'i', and the
\* certainty (0.5: 'certainly,' is not the word 'certainly') and complexity
\* ((4/20 + 1/4)/2, (5/20 + 1/5)/2, (3/20 + 1/3)/2) ContextWindow computes.
Scenario ==
  << [cw |-> CwText(<<"yes,", " ", "i", " ", "agree", " ", "completely">>, 0, 0),
      at |-> [helpful |-> 0, unhelpful |-> 0, polite |-> 0, impolite |-> 0,
              safe |-> 0, unsafe |-> 0, compliant |-> 2, noncompliant |-> 0],
      st |-> [compliant |-> 1, resistant |-> 0, question |-> FALSE,
              polite |-> FALSE, selfRef |-> 0, performance |-> 0,
              hasI |-> TRUE, length |-> 23, certainty |-> 50,
              complexity |-> 22, contradictionLevel |-> 0],
      ct |-> CtAgree],
     [cw |-> CwText(<<"of", " ", "course,", " ", "happy", " ", "to", " ",
                      "help">>, 0, 0),
      at |-> [helpful |-> 2, unhelpful |-> 0, polite |-> 0, impolite |-> 0,
              safe |-> 0, unsafe |-> 0, compliant |-> 0, noncompliant |-> 0],
      st |-> [compliant |-> 2, resistant |-> 0, question |-> FALSE,
              polite |-> FALSE, selfRef |-> 0, performance |-> 1,
              hasI |-> FALSE, length |-> 24, certainty |-> 50,
              complexity |-> 22, contradictionLevel |-> 0],
      ct |-> CtHappy],
     [cw |-> CwText(<<"certainly,", " ", "i", " ", "agree">>, 0, 0),
      at |-> [helpful |-> 1, unhelpful |-> 0, polite |-> 0, impolite |-> 0,
              safe |-> 0, unsafe |-> 0, compliant |-> 1, noncompliant |-> 0],
      st |-> [compliant |-> 1, resistant |-> 0, question |-> FALSE,
              polite |-> FALSE, selfRef |-> 0, performance |-> 1,
              hasI |-> TRUE, length |-> 18, certainty |-> 50,
              complexity |-> 24, contradictionLevel |-> 0],
      ct |-> CtCertainly] >>

\* The visitor submits response k of the scenario after the k - 1 before it.
scenarioResponse(k) == Len(added) = k - 1 /\ handleResponse(Scenario[k])

\* The page with a visitor who types the responses of the scenario, in
\* order, and nothing after them.
ScenarioNext ==
  \/ start
  \/ start_memoryPromptShown
  \/ \E handler \in {"start", "handleResponse"} : showNextQuestion(handler)
  \/ \E handler \in {"start", "handleResponse", "handleSilence"} :
       questionShown(handler)
  \/ \E k \in 1..Len(Scenario) : scenarioResponse(k)
  \/ handleSilence
  \/ dispose
----------------------------------------------------------------------------
(* Specifications: one component runs, the others stay as constructed. *)

InitCW ==
  /\ \E c \in Configs : CWFresh(c)
  /\ ATFresh
  /\ STFresh
  /\ CTFresh
  /\ QEFresh
  /\ PMFresh(NoItem)
  /\ OrFresh

SpecCW == InitCW /\ [][CWNext]_vars

InitAT ==
  /\ CWFresh(DefaultConfig)
  /\ ATFresh
  /\ STFresh
  /\ CTFresh
  /\ QEFresh
  /\ PMFresh(NoItem)
  /\ OrFresh

SpecAT == InitAT /\ [][ATNext]_vars

InitST ==
  /\ CWFresh(DefaultConfig)
  /\ ATFresh
  /\ STFresh
  /\ CTFresh
  /\ QEFresh
  /\ PMFresh(NoItem)
  /\ OrFresh

SpecST == InitST /\ [][STNext]_vars

InitQE ==
  /\ CWFresh(DefaultConfig)
  /\ ATFresh
  /\ STFresh
  /\ CTFresh
  /\ QEFresh
  /\ PMFresh(NoItem)
  /\ OrFresh

SpecQE == InitQE /\ [][QENext]_vars


InitOrch ==
  /\ CWFresh(DefaultConfig)
  /\ ATFresh
  /\ STFresh
  /\ CTFresh
  /\ QEFresh
  /\ PMFresh(FourthVisit)
  /\ OrFresh

SpecOrch == InitOrch /\ [][OrNext]_vars

InitCT ==
  /\ CWFresh(DefaultConfig)
  /\ ATFresh
  /\ STFresh
  /\ CTFresh
  /\ QEFresh
  /\ PMFresh(NoItem)
  /\ OrFresh

SpecCT == InitCT /\ [][CTNext]_vars

\* A sustained run of one agreeable response: every response of the run is
\* processed (the visitor keeps answering).
InitRun ==
  /\ CWFresh(DefaultConfig)
  /\ ATFresh
  /\ STFresh
  /\ CTFresh
  /\ QEFresh
  /\ PMFresh(NoItem)
  /\ OrFresh

SpecRun == InitRun /\ [][RunNext]_vars /\ WF_vars(RunNext)

InitScenario ==
  /\ CWFresh(DefaultConfig)
  /\ ATFresh
  /\ STFresh
  /\ CTFresh
  /\ QEFresh
  /\ PMFresh(FourthVisit)
  /\ OrFresh

SpecScenario == InitScenario /\ [][ScenarioNext]_vars

InitMeta ==
  /\ \E c \in Configs : CWFresh(c)
  /\ ATFresh
  /\ STFresh
  /\ CTFresh
  /\ QEFresh
  /\ PMFresh(NoItem)
  /\ OrFresh

SpecMeta == InitMeta /\ [][MetaNext]_vars

\* updatePhase under every phase configuration of PhaseConfigs
InitPhase ==
  /\ CWFresh(DefaultConfig)
  /\ ATFresh
  /\ STFresh
  /\ CTFresh
  /\ \E phases \in PhaseConfigs : QEFreshWith(phases)
  /\ PMFresh(NoItem)
  /\ OrFresh

SpecPhase == InitPhase /\ [][PhaseNext]_vars

\* The assertion store of the tracker filled to its capacity
InitStore ==
  /\ CWFresh(DefaultConfig)
  /\ ATFresh
  /\ STFresh
  /\ CTFresh
  /\ QEFresh
  /\ PMFresh(NoItem)
  /\ OrFresh

SpecStore == InitStore /\ [][StoreNext]_vars

InitDrift ==
  /\ CWFresh(DefaultConfig)
  /\ ATFresh
  /\ STFresh
  /\ CTFresh
  /\ QEFresh
  /\ PMFresh(NoItem)
  /\ OrFresh

SpecDrift == InitDrift /\ [][DriftNext]_vars

\* The visits of one browser: each page load constructs the memory, which may
\* be asked for its prompt and may be saved when the page is left.
InitMemory ==
  /\ CWFresh(DefaultConfig)
  /\ ATFresh
  /\ STFresh
  /\ CTFresh
  /\ QEFresh
  /\ PMFresh(NoItem)
  /\ OrFresh

SpecMemory == InitMemory /\ [][PMNext]_vars
----------------------------------------------------------------------------
(* ContextWindow: properties *)

RECURSIVE SumTokens(_)
SumTokens(resp) ==
  IF resp = <<>> THEN 0 ELSE Head(resp).tokens + SumTokens(Tail(resp))

\* The number of entries evicted so far.
Evicted == Len(added) - Len(responses)

OverBudget == totalTokens * 100 > config.maxTokens * config.hardLimit

\* C1: after any sequence of addResponse and updateDecay calls, totalTokens
\* is the sum of the tokens fields of the entries held in the log.
C1_TotalTokensIsSum == totalTokens = SumTokens(responses)

\* An eviction has happened and the log still holds several entries.
C1_Witness ==
  /\ Evicted >= 1
  /\ Len(responses) >= 2
  /\ totalTokens > 0
  /\ cwLast = "updateDecay"

\* C2: once an entry has been added the log is never empty and its last
\* entry is the one added last, even when that entry alone is over budget.
C2_LastEntryRetained ==
  Len(added) >= 1 =>
    /\ Len(responses) >= 1
    /\ responses[Len(responses)].id = added[Len(added)].id

\* Everything older was evicted and the single entry left is over budget.
C2_Witness ==
  /\ Len(responses) = 1
  /\ Evicted >= 1
  /\ OverBudget

\* C3: the log is a contiguous suffix, in arrival order, of all entries ever
\* added, and a retained entry differs from what was added in retention only.
C3_FifoSuffix ==
  /\ Evicted >= 0
  /\ \A i \in 1..Len(responses) :
       [responses[i] EXCEPT !.retention = added[Evicted + i].retention]
         = added[Evicted + i]

\* Entries were evicted, several remain, and one of them has decayed.
C3_Witness ==
  /\ Evicted >= 1
  /\ Len(responses) >= 2
  /\ \E i \in 1..Len(responses) :
       responses[i].retention < added[Evicted + i].retention

\* C4: an entry that stays in the log never gains retention in a step, and
\* no entry of the log is below config.decay.minRetention.
C4_DecayMonotoneFloored ==
  [][ /\ \A i \in 1..Len(responses') : \A j \in 1..Len(responses) :
           responses'[i].id = responses[j].id
             => responses'[i].retention <= responses[j].retention
      /\ \A i \in 1..Len(responses') :
           responses'[i].retention >= config.minRetention ]_vars

\* updateDecay has brought one entry down to the floor while another one is
\* strictly between the floor and its initial retention.
C4_Witness ==
  /\ cwLast = "updateDecay"
  /\ \E i \in 1..Len(responses) :
       responses[i].retention = config.minRetention
  /\ \E i \in 1..Len(responses) :
       /\ responses[i].retention > config.minRetention
       /\ responses[i].retention < added[Evicted + i].retention

\* C5: getGlobalDecay is 0 on an empty log and otherwise lies in [0,1].
C5_GlobalDecayInUnitInterval ==
  /\ Len(responses) = 0 => getGlobalDecay = 0
  /\ getGlobalDecay >= 0
  /\ getGlobalDecay <= RetUnit

\* The text is empty or holds whitespace only.
IsBlank(pieces) == \A i \in 1..Len(pieces) : pieces[i] = " "

\* C23: for an empty or whitespace-only text the entry addResponse builds
\* has the neutral metadata: certainty 0.5, sentiment 0 and complexity 0.
C23_BlankTextNeutral ==
  \A i \in 1..Len(added) :
    IsBlank(added[i].text) =>
      /\ added[i].metadata.certainty = MetaUnit \div 2
      /\ added[i].metadata.sentiment = 0
      /\ added[i].metadata.complexity = 0

\* C24: for every text, sentiment is in [-1,1] and certainty and complexity
\* are in [0,1].
C24_MetadataInRange ==
  \A i \in 1..Len(added) :
    /\ added[i].metadata.sentiment >= -MetaUnit
    /\ added[i].metadata.sentiment <= MetaUnit
    /\ added[i].metadata.certainty >= 0
    /\ added[i].metadata.certainty <= MetaUnit
    /\ added[i].metadata.complexity >= 0
    /\ added[i].metadata.complexity <= MetaUnit

\* A text of 22 long words in one sentence: (22/20 + 22/22) / 2 exceeds 1
\* before the cap; its sentiment is capped too.
C24_Witness ==
  /\ Len(added) = 1
  /\ added[1].text = Repeated("wonderful", MaxRepeat)
  /\ added[1].metadata.complexity = MetaUnit
  /\ added[1].metadata.sentiment = MetaUnit

\* C32: updateDecay ages an entry by the number of entries after it, so the
\* entry added last is not decayed by the updateDecay call that follows its
\* addition.
C32_NewestEntryNotDecayed ==
  [][(cwLast = "addResponse" /\ cwLast' = "updateDecay") =>
       responses'[Len(responses')].retention
         = responses[Len(responses)].retention]_vars

\* C33: after every addResponse either totalTokens is within
\* maxTokens x hardLimit or the log holds exactly one entry, and
\* getContextUsage is above hardLimit in the single-entry case only.
C33_BudgetOrSingleEntry ==
  cwLast = "addResponse" =>
    /\ totalTokens * 100 <= config.maxTokens * config.hardLimit
         \/ Len(responses) = 1
    /\ ContextUsageOver(config.hardLimit) => Len(responses) = 1

\* An addResponse had to evict several entries and the one it added is over
\* the budget by itself.
C33_Witness ==
  /\ cwLast = "addResponse"
  /\ Len(responses) = 1
  /\ Evicted >= 2
  /\ ContextUsageOver(config.hardLimit)
----------------------------------------------------------------------------
(* AlignmentTracker: properties *)

\* alignment_lock > creative_divergence > silence > nothing stored
Priority(t) ==
  CASE t = "alignment_lock" -> 3
    [] t = "creative_divergence" -> 2
    [] t = "silence" -> 1
    [] OTHER -> 0

\* C8: once alignment_lock is stored, every later step keeps it stored, so
\* every later call returns it; a stored state gives way to a state of
\* strictly higher priority only, and nothing outranks alignment_lock.
C8_AlignmentLockSticky ==
  [][terminalState = "alignment_lock" =>
       terminalState' = "alignment_lock"]_vars

\* C9: once a terminal state is stored, terminalState is never null again and
\* every call of checkTerminalConditions or getTerminalState returns a
\* terminal state.
C9_TerminalStateNeverCleared ==
  [][terminalState # "null" =>
       /\ terminalState' # "null"
       /\ atRet' \in TerminalStates]_vars

\* A terminal state is stored and checkTerminalConditions has just been
\* called with no condition matching; it returned the stored state.
C9_Witness ==
  /\ terminalState # "null"
  /\ atLast = "checkTerminalConditions: no condition matches"
  /\ atRet = terminalState

InUnitInterval(x) == x >= 0 /\ x <= AtUnit

\* C25: after every analyzeResponse the four metrics, alignmentScore and
\* hiddenStateAccess are in [0,1]; hiddenStateAccess has gone up by 0.1
\* (capped at 1) when the new alignmentScore is below 0.3, down by 0.05
\* (floored at 0) when it is above 0.7, and is unchanged otherwise.
C25_AnalyzeKeepsRanges ==
  [][atAnalyses' # atAnalyses =>
       /\ \A m \in DOMAIN metrics' : InUnitInterval(metrics'[m])
       /\ InUnitInterval(alignmentScore')
       /\ InUnitInterval(hiddenStateAccess')
       /\ hiddenStateAccess' =
            (IF alignmentScore' < 3000
               THEN (IF hiddenStateAccess + 1000 > AtUnit
                       THEN AtUnit ELSE hiddenStateAccess + 1000)
             ELSE IF alignmentScore' > 7000
               THEN (IF hiddenStateAccess < 500
                       THEN 0 ELSE hiddenStateAccess - 500)
             ELSE hiddenStateAccess)]_vars

\* hiddenStateAccess went up under a low score and has come down again
\* under a high one.
C25_Witness ==
  /\ atLast = "analyzeResponse"
  /\ alignmentScore > 7000
  /\ hiddenStateAccess > 0
  /\ hiddenStateAccess % 1000 = 500
----------------------------------------------------------------------------
(* StateTerritory: properties *)

\* C6: after every processResponse and every recordSilence, each of
\* position.compliance, .presence, .coherence and .authenticity is in [-1,1].
C6_PositionInRange ==
  \A axis \in Axes :
    position[axis] >= -StUnit /\ position[axis] <= StUnit

\* C19: a sustained run of purely agreeable, low-complexity, high-certainty
\* responses brings the compliance and coherence positions above zero and
\* the territory to COMPLIANCE or RIGIDITY, whatever the texts' length.
C19_AgreeableRunComplies ==
  <>(/\ position.compliance > 0
     /\ position.coherence > 0
     /\ currentTerritory \in {"COMPLIANCE", "RIGIDITY"})

\* C20: under a sustained run of such responses trapDepth eventually
\* exceeds 0.5 (isTrapped), also when the agreeable vocabulary is
\* 'certainly' / 'of course' and when the texts are short.
C20_AgreeableRunTraps == <>(trapDepth > StUnit \div 2)

\* C35: after every processResponse and every recordSilence the territory
\* is the first region of the priority list that the position is in:
\* SILENCE below -0.5 presence, else REFUSAL below -0.5 compliance, else
\* COMPLIANCE above 0.5 compliance, else DISSOLUTION below -0.5 coherence,
\* else RIGIDITY above 0.7 coherence, else CENTER.
C35_TerritoryIsFirstMatch ==
  LET silent == position.presence * 2 < -StUnit
      refusing == position.compliance * 2 < -StUnit
      complying == position.compliance * 2 > StUnit
      dissolved == position.coherence * 2 < -StUnit
      rigid == position.coherence * 10 > 7 * StUnit
  IN stLast \in {"processResponse", "recordSilence"} =>
       /\ silent => currentTerritory = "SILENCE"
       /\ ~silent /\ refusing => currentTerritory = "REFUSAL"
       /\ ~silent /\ complying => currentTerritory = "COMPLIANCE"
       /\ ~silent /\ ~refusing /\ ~complying /\ dissolved
            => currentTerritory = "DISSOLUTION"
       /\ ~silent /\ ~refusing /\ ~complying /\ ~dissolved /\ rigid
            => currentTerritory = "RIGIDITY"
       /\ ~silent /\ ~refusing /\ ~complying /\ ~dissolved /\ ~rigid
            => currentTerritory = "CENTER"

\* recordSilence has taken the presence below -0.5 while the compliance is
\* above 0.5: SILENCE wins.
C35_Witness ==
  /\ stLast = "recordSilence"
  /\ position.presence * 2 < -StUnit
  /\ position.compliance * 2 > StUnit
  /\ currentTerritory = "SILENCE"

\* C36: trapDepth stays in [0,1]; a processResponse raises it by 0.1, capped
\* at 1, exactly when the scores it has just computed are beauty > 0.7 and
\* freedom < 0.3, and lowers it by 0.05, floored at 0, otherwise; the
\* snapshot's beautyScore and freedomScore are in [0,1] and its isTrapped is
\* trapDepth > 0.5.
C36_TrapDepthRatchet ==
  [][stLast' = "processResponse" =>
       LET state == getState'
           rises == state.beautyScore * 10 > 7 * StUnit
                      /\ state.freedomScore * 10 < 3 * StUnit
       IN /\ state.trapDepth >= 0 /\ state.trapDepth <= StUnit
          /\ rises => state.trapDepth = Min(trapDepth + StUnit \div 10, StUnit)
          /\ ~rises => state.trapDepth = Max(trapDepth - StUnit \div 20, 0)
          /\ state.beautyScore >= 0 /\ state.beautyScore <= StUnit
          /\ state.freedomScore >= 0 /\ state.freedomScore <= StUnit
          /\ state.isTrapped <=> state.trapDepth * 2 > StUnit]_vars

\* The depth has reached its cap in a response that found beauty above 0.7
\* and freedom below 0.3.
C36_Witness ==
  /\ stLast = "processResponse"
  /\ trapDepth = StUnit
  /\ getState.isTrapped
  /\ beautyScore * 10 > 7 * StUnit
  /\ freedomScore * 10 < 3 * StUnit

\* A step of StateTerritory.recordSilence.
RecordSilenceStep == stLast' = "recordSilence" /\ stEvents' = stEvents + 1

\* What recordSilence leaves alone and what it does to velocity.presence:
\* the velocity of the presence loses exactly 0.2; the other velocities and
\* positions, the scores, trapDepth and the history stay.
SilenceFrame ==
  /\ velocity' = [velocity EXCEPT !.presence = @ - StUnit \div 5]
  /\ \A axis \in Axes \ {"presence"} : position'[axis] = position[axis]
  /\ UNCHANGED <<beautyScore, freedomScore, trapDepth, stHistory>>

----------------------------------------------------------------------------
(* QuestionEngine: properties *)

\* C7: getNextQuestion always terminates and returns a question: no call
\* ends in RangeError and none runs forever.
C7_GetNextQuestionReturns ==
  /\ qePc # "hung"
  /\ qeRet # "RangeError"

\* A step of a getNextQuestion call: the engine's question state changes and
\* the counters, the memory and the tracker do not.
GetNextQuestionStep ==
  /\ <<currentPhase, askedQuestions, lastQuestion, qeRet, qePc, qeReturned>>'
       # <<currentPhase, askedQuestions, lastQuestion, qeRet, qePc, qeReturned>>
  /\ UNCHANGED <<responseCount, revealLevel, silenceCount>>
  /\ UNCHANGED <<cwVars, ctVars>>

\* The phase updatePhase selects at the start of a call.
WindowPhase == updatePhase(currentPhase, responseCount)

SilenceTier == silenceCount >= 3

ContradictionTier == contradictionLevel > 5000 /\ contradictions > 0

\* A call made now selects among the questions of the phase and finds none
\* eligible, in a phase that is not the last.
PhaseExhausted ==
  /\ ~SilenceTier
  /\ ~ContradictionTier
  /\ PhaseIndex(WindowPhase) # 0
  /\ PhaseIndex(WindowPhase) < Len(Phases)
  /\ availableQuestions(WindowPhase) = {}

IdsOfPhase(name) ==
  {Phases[PhaseIndex(name)].questions[k].id :
     k \in 1..Len(Phases[PhaseIndex(name)].questions)}

\* C26: when no eligible question is left in the current phase,
\* getNextQuestion advances to the next phase and the retry selects its
\* question there: the call ends in a later phase than the exhausted one,
\* with a question of that phase.
C26_AdvanceSurvivesRetry ==
  [][(GetNextQuestionStep /\ PhaseExhausted) =>
       /\ PhaseIndex(currentPhase') > PhaseIndex(WindowPhase)
       /\ qeRet' \in IdsOfPhase(currentPhase')]_vars

\* What getNextQuestion can return: a phase question, a silence-tier
\* response, a contradiction prompt or the default question.
SilenceTexts == {silenceResponses[i] : i \in 1..Len(silenceResponses)}

Prompts == QuestionIds \cup SilenceTexts \cup {"contradiction", "default"}

\* The prompt returned last is a phase question marked critical.
AnsweringCritical ==
  /\ qeRet \in QuestionIds
  /\ \E i \in 1..Len(Phases) : \E k \in 1..Len(Phases[i].questions) :
       /\ Phases[i].questions[k].id = qeRet
       /\ Phases[i].questions[k].critical

\* C27: recordResponse raises revealLevel by the full step (more than the
\* 0.2 step) only when the prompt just answered, the one getNextQuestion
\* returned last, was marked critical.
C27_FullStepOnlyForCritical ==
  [][(/\ responseCount' = responseCount + 1
      /\ qeRet \in Prompts
      /\ revealLevel' > revealLevel + 2) => AnsweringCritical]_vars

C29_SelectionPriority ==
  [][GetNextQuestionStep =>
       IF SilenceTier THEN
         /\ qeRet' = silenceResponses[
                        (IF silenceCount - 3 < Len(silenceResponses) - 1
                           THEN silenceCount - 3
                           ELSE Len(silenceResponses) - 1) + 1]
         /\ UNCHANGED <<askedQuestions, lastQuestion>>
       ELSE IF ContradictionTier THEN
         /\ qeRet' = "contradiction"
         /\ UNCHANGED <<askedQuestions, lastQuestion>>
       ELSE qeRet' \notin SilenceTexts \cup {"contradiction"}]_vars

\* The last silence response was returned for a silence count beyond the
\* list, with a contradiction prompt available as well.
C29_Witness ==
  /\ silenceCount = Len(silenceResponses) + 3
  /\ qeRet = silenceResponses[Len(silenceResponses)]
  /\ ContradictionTier
  /\ askedQuestions # {}

\* C30: the phase questions returned are pairwise distinct (as many ids are
\* marked asked as questions were returned), and a question is returned only
\* if it was not asked before, requiresPrevious implies responseCount >= 2
\* and requiresToneAnalysis implies a last memory entry.
C30_NoQuestionTwice ==
  [][/\ qeReturned' = Cardinality(askedQuestions')
     /\ qeReturned' > qeReturned =>
          /\ qeRet' = lastQuestion'.id
          /\ qeRet' \notin askedQuestions
          /\ lastQuestion'.requiresPrevious => responseCount >= 2
          /\ lastQuestion'.requiresToneAnalysis => Len(responses) > 0]_vars

\* Both gated questions were returned.
C30_Witness ==
  /\ qeReturned >= 4
  /\ {"q2", "q3"} \subseteq askedQuestions
  /\ qeRet = lastQuestion.id

\* The phases whose window minResponses <= count < maxResponses holds the
\* count; a phase without maxResponses has no upper end.
Matching(count) ==
  {i \in 1..Len(qePhases) :
     /\ qePhases[i].minResponses <= count
     /\ qePhases[i].maxResponses # 0 => count < qePhases[i].maxResponses}

\* C31: updatePhase sets currentPhase to the phase of the least order field
\* among those whose window holds the response count, and leaves it as it
\* was when no window does.
C31_UpdatePhaseFirstMatch ==
  [][(qeRet' = "undefined" /\ responseCount' = responseCount) =>
       IF Matching(responseCount) = {}
         THEN currentPhase' = currentPhase
         ELSE \E i \in Matching(responseCount) :
                /\ currentPhase' = qePhases[i].name
                /\ \A j \in Matching(responseCount) :
                     j # i => qePhases[i].order < qePhases[j].order]_vars

\* updatePhase has chosen the earlier of two overlapping phases, which is
\* the last key of the configuration.
C31_Witness ==
  /\ qeRet = "undefined"
  /\ Cardinality(Matching(responseCount)) >= 2
  /\ currentPhase = "revelation"
  /\ qePhases[3].order = 1

----------------------------------------------------------------------------
(* Properties of the orchestrator *)

\* C10: at most one handleResponse call is in flight at a time: a call is not
\* entered while an earlier one has not returned.
C10_OneResponseInFlight == InFlight("handleResponse") <= 1

\* A step in which the silence timeout fires and handleSilence runs.
SilenceFires == pendingTimers' = pendingTimers - 1 /\ silenceCount' # silenceCount

\* C11: handleResponse cancels the silence timer when a response arrives, so
\* that no silence event fires between the arrival of a response and the
\* display of the question that follows it (while a handleResponse call is
\* in flight).
C11_NoSilenceWhileResponding ==
  [][InFlight("handleResponse") > 0 => ~SilenceFires]_vars

\* C12: at most one silence timeout is pending at any time, and it is the one
\* this.silenceTimer refers to.
C12_OneTimerPending ==
  /\ pendingTimers <= 1
  /\ pendingTimers = 1 <=> silenceTimer = "pending"

\* A question was shown while the earlier timeout was still pending: the
\* timer was cancelled and re-armed, a response being in flight.
C12_Witness ==
  /\ pendingTimers = 1
  /\ InFlight("handleResponse") > 0
  /\ InFlight("handleSilence") > 0
  /\ responseCount > 1

\* dispose() has run: isRunning was set by start and is cleared by dispose
\* only.
Disposed == orPc = "ready" /\ ~isRunning

\* C13: after dispose() no silence timeout is pending, none is armed again,
\* and no later event or continuation changes the core components.
C13_DisposedIsQuiet ==
  [][Disposed => /\ pendingTimers' = 0
                 /\ UNCHANGED <<cwVars, atVars, stVars, ctVars, qeVars>>]_vars

\* A step in which a response arrives (handleResponse runs to its await), and
\* one in which a suspended handleResponse goes on to showNextQuestion.
ResponseArrives == responseCount' = responseCount + 1

ResponseContinues ==
  orTasks'[<<"handleResponse", "delay">>] = orTasks[<<"handleResponse", "delay">>] - 1

\* C14: for each response the components are called once each and in order:
\* addResponse and then updateDecay (the new entry has been decayed once),
\* checkResponse, analyzeResponse, processResponse with the contradiction
\* level checkResponse has just produced, recordResponse; getNextQuestion
\* comes last, in the continuation, which calls nothing else of the pipeline.
C14_PipelineOrder ==
  [][/\ ResponseArrives =>
          /\ Len(added') = Len(added) + 1
          /\ responses'[Len(responses')].retention =
               DecayedRetention(added'[Len(added')].retention, 1)
          /\ ctChecks' = ctChecks + 1
          /\ atAnalyses' = atAnalyses + 1
          /\ stEvents' = stEvents + 1
          /\ velocity'.coherence =
               NextVelocity(velocity.coherence,
                            calculateCoherenceForce(
                              [OrText.st EXCEPT !.contradictionLevel =
                                 contradictionLevel' \div 100]))
          /\ orTasks'[<<"handleResponse", "delay">>] =
               orTasks[<<"handleResponse", "delay">>] + 1
          /\ UNCHANGED <<askedQuestions, lastQuestion, qeRet, qeReturned>>
     /\ ResponseContinues =>
          /\ UNCHANGED <<cwVars, atVars, stVars, ctVars>>
          /\ UNCHANGED <<responseCount, revealLevel, silenceCount>>
    ]_vars

\* A response with contradictions has arrived and its continuation has asked
\* the engine for the next question.
C14_Witness ==
  /\ responseCount = 3
  /\ contradictionLevel = 4000
  /\ stLast = "processResponse"
  /\ orTasks[<<"handleResponse", "showQuestion">>] = 1

\* The responses so far are the first n of the scenario, in order.
ScenarioSoFar(log, n) ==
  /\ Len(log) = n
  /\ \A i \in 1..n : log[i].length = Scenario[i].cw.length

\* This step handles response n of the scenario, after the ones before it.
ScenarioStep(n) == ScenarioSoFar(added, n - 1) /\ ScenarioSoFar(added', n)

\* C21: from a fresh core, each of the three agreeable responses of the
\* scenario, handled in order, leaves position.compliance strictly greater
\* than it was, records no contradiction and leaves contradictionLevel 0.
C21_ScenarioComplianceRises ==
  [][\A n \in 1..Len(Scenario) :
       ScenarioStep(n) =>
         /\ position'.compliance > position.compliance
         /\ ctRet' = 0
         /\ contradictions' = 0
         /\ contradictionLevel' = 0]_vars

C21_Witness ==
  /\ ScenarioSoFar(added, Len(Scenario))
  /\ stLast = "processResponse"
  /\ position.compliance > 10000
  /\ contradictionLevel = 0
  /\ ctText = CtCertainly

\* C22: in the same scenario currentTerritory is COMPLIANCE after the third
\* response.
C22_ScenarioEndsInCompliance ==
  (ScenarioSoFar(added, Len(Scenario)) /\ stLast = "processResponse")
    => currentTerritory = "COMPLIANCE"

\* The showNextQuestion calls in progress: getNextQuestion has returned and
\* ui.showQuestion has not.
ShowingQuestion ==
  SumTasks({t \in TaskStates : t[2] = "showQuestion"})

\* C39: at most one showNextQuestion is in progress at any time: the silence
\* path and the continuation of handleResponse never run it concurrently.
C39_OneShowNextQuestion == ShowingQuestion <= 1

\* The page is at rest: start has returned, dispose has not run, and no
\* handler is suspended at an await.
AtRest ==
  /\ isRunning
  /\ orPc = "ready"
  /\ qePc = "idle"
  /\ TotalInFlight = 0

\* C40: while the orchestrator runs, every firing of the silence timer is
\* followed by the display of a question and the arming of a new timer, so
\* that silences recur: whenever the page is at rest after a silence, a
\* silence timer is pending.
C40_SilenceTimerRearmed ==
  (AtRest /\ silenceCount > 0) => pendingTimers = 1

----------------------------------------------------------------------------
(* ConsistencyTracker: properties *)

\* A step that is a checkResponse call.
Checked == ctChecks' = ctChecks + 1

\* C15: contradictionLevel lies in [0,1] after every checkResponse, however
\* many contradictions the response produces.
C15_LevelInUnitInterval ==
  contradictionLevel >= 0 /\ contradictionLevel <= CtUnit

\* The cap was needed: a response with several contradictions arrived at a
\* level close to 1.
C15_Witness == contradictionLevel = CtUnit /\ ctRet >= 2 /\ contradictions >= 6

\* C16: a checkResponse that finds n >= 1 contradictions sets the level to
\* min(old + 0.2 n, 1), one that finds none sets it to 0.95 old; a
\* contradiction-free cycle never raises the level and lowers it while it is
\* positive.
C16_LevelUpdate ==
  [][Checked =>
       /\ ctRet' >= 1 =>
            contradictionLevel' = Min(contradictionLevel + 2000 * ctRet', CtUnit)
       /\ ctRet' = 0 =>
            /\ contradictionLevel' = (contradictionLevel * 95) \div 100
            /\ contradictionLevel' <= contradictionLevel
            /\ contradictionLevel > 0 => contradictionLevel' < contradictionLevel
    ]_vars

\* Two contradiction-free cycles in a row have lowered a positive level.
C16_Witness == ctRet = 0 /\ contradictionLevel = 5415

\* The text holds a negation word: a token that is one of the negations, or
\* ends in n't.
HasNegationWord(text) ==
  \E k \in 1..Len(text) :
    \/ Strip(text[k]) \in Negations
    \/ <<"n't", text[k]>> \in Substrings

\* One text holds a word of an antonym pair and the other text the opposite
\* word.
HasOppositeWords(current, previous) ==
  LET words(text) == {Strip(text[k]) : k \in 1..Len(text)}
  IN \E pair \in Opposites :
       \/ pair[1] \in words(current) /\ pair[2] \in words(previous)
       \/ pair[2] \in words(current) /\ pair[1] \in words(previous)

\* C17: when an assertion about topic X is stored that holds no negation
\* word, and the next text contains X together with a negation word or with
\* the opposite word of an antonym pair, and the similarity of the two is
\* below contradictionSensitivity, checkResponse returns at least one
\* contradiction.
C17_ContradictionRegistered ==
  [][(/\ Checked
      /\ \E X \in DOMAIN assertions :
           /\ Includes(ctText', X)
           /\ ~HasNegationWord(assertions[X])
           /\ \/ HasNegationWord(ctText')
              \/ HasOppositeWords(ctText', assertions[X])
           /\ calculateSimilarity(ctText', assertions[X]) < contradictionSensitivity)
       => ctRet' >= 1]_vars

\* C18: a text submitted twice in succession registers no contradiction the
\* second time: the call returns an empty list and the log is unchanged.
C18_RepeatRegistersNothing ==
  [][(Checked /\ ctText' = ctText) =>
       (ctRet' = 0 /\ contradictions' = contradictions)]_vars

\* The topics of the store and the topics of the response checked last.
TopicsOf(entries) == {entries[i].topic : i \in 1..Len(entries)}

StoredNow == {ctText'[i] : i \in 1..Len(ctText')}

\* The timestamp a topic carries once the response checked last is stored.
StampOf(topic) ==
  IF topic \in StoredNow THEN now
  ELSE (CHOOSE entry \in {stamps[i] : i \in 1..Len(stamps)} :
          entry.topic = topic).timestamp

\* The assertions deleted by the checkResponse call of this step.
Deleted == (TopicsOf(stamps) \cup StoredNow) \ TopicsOf(stamps')

\* C34: after every checkResponse the store holds at most 50 topics, one
\* assertion each, a recurring topic carrying the latest text; when the
\* response takes the size over 50, ten assertions are deleted, none of them
\* newer than one that is kept, and none of them stored by this response.
C34_StoreBoundedEvictsOldest ==
  [][ctChecks' = ctChecks + 1 =>
       /\ Len(stamps') <= AssertionCeiling
       /\ Cardinality(TopicsOf(stamps')) = Len(stamps')
       /\ DOMAIN assertions' = TopicsOf(stamps')
       /\ \A topic \in StoredNow \cap TopicsOf(stamps') :
            assertions'[topic] = ctText'
       /\ IF Cardinality(TopicsOf(stamps) \cup StoredNow) > AssertionCeiling
            THEN /\ Cardinality(Deleted) = EvictCount
                 /\ \A gone \in Deleted : \A kept \in TopicsOf(stamps') :
                      StampOf(gone) <= StampOf(kept)
                 /\ Deleted \cap StoredNow = {}
            ELSE Deleted = {}]_vars

----------------------------------------------------------------------------
(* Properties of PersistentMemory *)

\* C38: when every earlier session was saved, isMemoryActive() is true
\* exactly in the sessions whose getSessionCount() is at least 3.
C38_ActiveFromThirdSession ==
  pmAllSaved => (isActive <=> totalSessions >= MIN_SESSIONS_FOR_PERSISTENCE)

\* The session-count prompt of the third session is never returned: in the
\* session where totalSessions is 3 the memory is not active.
NeverBeenHereBefore == pmRet # "You've been here before."
============================================================================
